---- MODULE Spec2Model ----
(***************************************************************************)
(* Model of the RAG pipeline of the repository: EmbeddingService and       *)
(* RAGService (ragService.ts / embeddingService.ts), the SQL function      *)
(* match_embeddings, the chat hook useAI.generateResponse and the          *)
(* background indexing of DatasetService (fileParserService.ts).           *)
(*                                                                         *)
(* Every asynchronous call is a run: run[r] holds the locals of the call   *)
(* that run r is executing and the await point it is suspended at.  One    *)
(* action is one synchronous stretch of code between two await points.     *)
(* A call awaited by useAI.generateResponse or indexDatasetInBackground    *)
(* runs in the same run with caller set; when it has settled, the caller   *)
(* resumes in an action of its own (AfterHasEmbeddings, AfterSearchForAI,  *)
(* AfterIndexDataset).  DatasetService.indexDataset wraps a background     *)
(* indexing in a promise of its own (outer, promise); uploadFile starts    *)
(* one in another run and returns.                                         *)
(*                                                                         *)
(* Representation of values:                                               *)
(*  - a text (chunk content, query) is a positive integer;                 *)
(*  - a vector number[] is [len, head]: an array of len entries whose      *)
(*    first two entries are head and whose other entries are 0;            *)
(*  - an error string is a tuple of its parts;                             *)
(*  - cost_estimate is counted in units of 1e-8 (costPer1KTokens = 1e-5).  *)
(* Date.now() and console output are left out: nothing reads them.         *)
(* The fields outcomes, inserts, deletes, counts, storeAtCall, insertedIds  *)
(* and deletedIds of a run are history: what the provider and the store    *)
(* answered to this call, the table as it was when the call was made, and  *)
(* the ids of the rows the call has inserted and deleted.  No action reads *)
(* them.                                                                   *)
(***************************************************************************)
EXTENDS Integers, Sequences, FiniteSets, TLC

\* ------------------------------------------------------------------ bounds
\* Longest chunk list a document yields.
MaxChunks == 4
\* generateEmbeddings' batchSize, 100 in the source, scaled down.
EmbedBatchSize == 3
\* indexDataset's insert batchSize, 50 in the source, scaled down.
InsertBatchSize == 2
\* Rows the store ever receives in one behaviour.
MaxRows == 4
\* Paragraphs of a free text given to the chunker.
MaxParagraphs == 3
\* Data rows of a table given to the chunker.
MaxCsvRows == 7
\* Members of a JSON value given to the chunker.
MaxItems == 3

\* ------------------------------------------------------- program constants
dimensions == 768
costPer1KTokensE8 == 1000
SchemaDimensions == 1536
similarityThreshold == 70
maxMatches == 5

NULL == "<null>"
TestKey == "AIzaSyTest123"

Runs == {1, 2}
Gems == {"gemA"}
Datasets == {"ds1"}
Contents == 0..MaxChunks
Queries == {1, 2}

\* Lengths of the 'embedding.values' array a provider response may carry.
VecLens == {dimensions, SchemaDimensions}
\* Ways one provider request fails: non-2xx, malformed body, transport error.
FailKinds == {"http", "malformed", "network"}

VARIABLES geminiApiKey, localStorage, store, nextId, datasets, run

vars == <<geminiApiKey, localStorage, store, nextId, datasets, run>>

\* ----------------------------------------------------------------- helpers
Min(a, b) == IF a < b THEN a ELSE b

RECURSIVE SumTokens(_)
\* chunks.reduce((sum, chunk) => sum + chunk.metadata.tokens, 0)
SumTokens(cs) ==
  IF cs = <<>> THEN 0 ELSE cs[1].metadata.tokens + SumTokens(Tail(cs))

\* JavaScript truthiness of a string | null.
Truthy(k) == k # NULL /\ k # ""

\* a || b
OrElse(a, b) == IF Truthy(a) THEN a ELSE b

\* array.slice(i, i + size), i counted from 0
Slice(s, i, size) == SubSeq(s, i + 1, Min(i + size, Len(s)))

\* new Array(d).fill(0)
ZeroVector(d) == [len |-> d, head |-> <<0, 0>>]

\* The provider's embedding model: a fixed function of the text.
EmbeddingOf(text) == <<(text % 3) + 1, (text % 4) + 1>>

\* data.embedding.values of a successful response for text, with n entries.
ProviderValues(text, n) == [len |-> n, head |-> EmbeddingOf(text)]

\* ChunkingService.chunkContent(content, ...) as indexDataset sees it: the
\* document content c is one that the chunker cuts into c chunks.
DocumentChunks(c) ==
  [k \in 1..c |->
     [content |-> 10 * c + k,
      metadata |-> [chunk_index |-> k - 1, tokens |-> k + 1]]]

\* (totalTokens / 1000) * provider.costPer1KTokens, in units of 1e-8
CostEstimate(totalTokens) == (totalTokens * costPer1KTokensE8) \div 1000

\* EmbeddingService.estimateCost
estimateCost(chunks) ==
  [totalTokens |-> SumTokens(chunks),
   costEstimate |-> CostEstimate(SumTokens(chunks))]

\* isProviderConfigured testing the key against null only.
isProviderConfigured_NullOnly(key) == key # NULL

\* EmbeddingService.isProviderConfigured; the registry holds one provider,
\* whose name is 'Google Gemini'.
isProviderConfigured(key) == Truthy(key)

\* EmbeddingService.isConfigured
isConfigured(key) == Truthy(key)

\* EmbeddingService.validateEmbedding(embedding, expectedDimensions).isValid
validateEmbedding(embedding, expectedDimensions) ==
  /\ embedding.len = expectedDimensions
  /\ embedding.head # <<0, 0>>

\* DEFAULT_RAG_CONFIG, the fields the search reads.
DEFAULT_RAG_CONFIG ==
  [similarityThreshold |-> similarityThreshold, maxMatches |-> maxMatches]

\* The RAGConfig values a caller passes to a search: the default threshold
\* or a stricter one (in hundredths), the default limit or a limit of 1.
Configs ==
  [similarityThreshold : {similarityThreshold, 95},
   maxMatches : {1, maxMatches}]

\* DEFAULT_CHUNKING_CONFIG, the fields the chunker reads.
DEFAULT_CHUNKING_CONFIG ==
  [chunkSize |-> 1000, chunkOverlap |-> 200, minChunkSize |-> 100]

\* A JSON value with no members, and a document with no content.
NoData == [kind |-> "array", items |-> <<>>, keys |-> <<>>]

NoInput ==
  [fileType |-> "txt", content |-> <<>>, parsed |-> FALSE, data |-> NoData]

\* --------------------------------------------------------------- run state
Pending == [status |-> "pending"]
Rejected(why) == [status |-> "rejected", error |-> why]
Resolved(v) == [status |-> "resolved", value |-> v]

\* A boolean local as a string, next to NULL for undefined.
Shown(b) == IF b THEN "true" ELSE "false"

\* gem.prompt, the system prompt of a collection.
GemPrompt == "prompt"

\* The locals of useAI.generateResponse, kept by the frames of the calls it
\* awaits: useRAG, enhancedPrompt (the parts it is made of), ragContext
\* (contextUsed, or NULL while undefined), and the chat requests sent with
\* the system prompt of each.  hasEmbeddings, isConfigured and ragError are
\* the values the RAG step saw.
NoAI ==
  [useRAG |-> FALSE, enhancedPrompt |-> <<GemPrompt>>, contextUsed |-> NULL,
   hasEmbeddings |-> NULL, isConfigured |-> NULL, ragError |-> NULL,
   context |-> <<>>, requests |-> <<>>]

\* No progress callback: the optional parameter left out.
NoCallback == [present |-> FALSE, throwsOn |-> {}]

\* The locals of uploadFile: autoIndex and onIndexingProgress, the parsed
\* content, the progress values reported to onProgress, whether the file is
\* in the storage bucket, and the run the background indexing was started
\* in (0 for none).
NoUpload ==
  [autoIndex |-> FALSE, callback |-> NoCallback, reported |-> <<>>,
   stored |-> FALSE, started |-> 0]

IdleRun ==
  [pc |-> "idle", op |-> "none", gemId |-> "", datasetId |-> "", query |-> 0,
   queryEmbedding |-> <<>>,
   chunks |-> <<>>, embeddings |-> <<>>, errors |-> <<>>, totalTokens |-> 0,
   i |-> 0, batchEmbeddings |-> <<>>, embeddingRecords |-> <<>>,
   insertedCount |-> 0, stats |-> <<>>, outcomes |-> <<>>, inserts |-> <<>>,
   fetchCalls |-> 0, insertCalls |-> 0, rpcCalls |-> 0, storeAtCall |-> <<>>,
   content |-> 0, deletedCount |-> 0, deleteCalls |-> 0, deletes |-> <<>>,
   countCalls |-> 0, counts |-> <<>>, config |-> DEFAULT_RAG_CONFIG,
   caller |-> "none", ai |-> NoAI, progress |-> <<>>,
   input |-> NoInput, chunking |-> DEFAULT_CHUNKING_CONFIG,
   insertedIds |-> {}, deletedIds |-> {},
   callback |-> NoCallback, outer |-> "none", promise |-> Pending,
   completedWith |-> <<>>, upload |-> NoUpload,
   result |-> Pending]

Init ==
  /\ \E env \in {NULL, "", TestKey}, ls \in {NULL, "", TestKey} :
       /\ localStorage = ls
       /\ geminiApiKey = OrElse(env, ls)
  /\ store = <<>>
  /\ nextId = 1
  /\ datasets = <<>>
  /\ run = [r \in Runs |-> IdleRun]

\* ------------------------------------------------- EmbeddingService (batch)
\* IndexingStats built at the end of generateEmbeddings.
GenerateStats(rec) ==
  [total_chunks |-> Len(rec.chunks),
   total_embeddings |-> Len(rec.embeddings),
   total_tokens |-> rec.totalTokens,
   cost_estimate |-> CostEstimate(rec.totalTokens),
   errors |-> rec.errors]

\* The head of the insert loop of indexDataset: the batch starting at rec.i
\* is sent to the store, or the loop is over and the stats are returned with
\* total_embeddings overwritten.
NextInsert(rec) ==
  IF rec.i < Len(rec.embeddingRecords)
  THEN [rec EXCEPT !.pc = "insert", !.insertCalls = @ + 1]
  ELSE [rec EXCEPT
          !.pc = "done",
          !.result = Resolved([rec.stats EXCEPT
                                 !.total_embeddings = rec.insertedCount])]

\* IndexAfterEmbeddings building no record for a placeholder vector.
IndexAfterEmbeddings_SkipPlaceholders(rec) ==
  IF Len(rec.embeddings) # Len(rec.chunks)
  THEN [rec EXCEPT !.pc = "done", !.result = Rejected("length_mismatch")]
  ELSE LET Real(record) == record.embedding # ZeroVector(dimensions)
       IN NextInsert([rec EXCEPT
            !.stats = GenerateStats(rec),
            !.embeddingRecords =
               SelectSeq([k \in 1..Len(rec.chunks) |->
                            [gem_id |-> rec.gemId,
                             dataset_id |-> rec.datasetId,
                             content |-> rec.chunks[k].content,
                             metadata |-> rec.chunks[k].metadata,
                             embedding |-> rec.embeddings[k]]], Real),
            !.i = 0,
            !.insertedCount = 0])

\* indexDataset after generateEmbeddings has returned: the length check, the
\* building of embeddingRecords and the start of the insert loop.
IndexAfterEmbeddings(rec) ==
  IF Len(rec.embeddings) # Len(rec.chunks)
  THEN [rec EXCEPT !.pc = "done", !.result = Rejected("length_mismatch")]
  ELSE NextInsert([rec EXCEPT
          !.stats = GenerateStats(rec),
          !.embeddingRecords =
             [k \in 1..Len(rec.chunks) |->
                [gem_id |-> rec.gemId,
                 dataset_id |-> rec.datasetId,
                 content |-> rec.chunks[k].content,
                 metadata |-> rec.chunks[k].metadata,
                 embedding |-> rec.embeddings[k]]],
          !.i = 0,
          !.insertedCount = 0])

\* The end of generateEmbeddings: the caller gets { embeddings, stats }.
FinishGenerate(rec) ==
  IF rec.op = "generateEmbeddings"
  THEN [rec EXCEPT
          !.pc = "done",
          !.result = Resolved([embeddings |-> rec.embeddings,
                               stats |-> GenerateStats(rec)])]
  ELSE IndexAfterEmbeddings(rec)

\* The head of the batch loop of generateEmbeddings: either the first request
\* of the batch starting at rec.i is sent, or the loop is over.
NextBatch(rec) ==
  IF rec.i < Len(rec.chunks)
  THEN [rec EXCEPT !.pc = "fetch",
                   !.batchEmbeddings = <<>>,
                   !.fetchCalls = @ + 1]
  ELSE FinishGenerate(rec)

\* generateEmbeddings up to its first await.
EnterGenerate(rec, key) ==
  IF ~isProviderConfigured(key)
  THEN [rec EXCEPT !.pc = "done", !.result = Rejected("config")]
  ELSE NextBatch([rec EXCEPT !.embeddings = <<>>, !.errors = <<>>,
                             !.totalTokens = 0, !.i = 0])

\* The batch generateGeminiBatch is working on: chunks.slice(i, i + batchSize)
Batch(rec) == Slice(rec.chunks, rec.i, EmbedBatchSize)

\* 0-based position of the chunk whose request is in flight.
InFlight(rec) == rec.i + Len(rec.batchEmbeddings)

\* OnBatchValues with unshift in place of push: a batch comes out reversed.
OnBatchValues_Unshift(rec, n) ==
  LET chunk == rec.chunks[InFlight(rec) + 1]
      be == <<ProviderValues(chunk.content, n)>> \o rec.batchEmbeddings
      logged == [rec EXCEPT !.outcomes =
                   Append(@, [pos |-> InFlight(rec), kind |-> "ok", len |-> n])]
  IN IF Len(be) < Len(Batch(rec))
     THEN [logged EXCEPT !.batchEmbeddings = be, !.fetchCalls = @ + 1]
     ELSE NextBatch([logged EXCEPT
                       !.embeddings = @ \o be,
                       !.totalTokens = @ + SumTokens(Batch(rec)),
                       !.i = @ + EmbedBatchSize])

\* A request of generateGeminiBatch came back with embedding.values: the
\* values are pushed as they are; the batch goes on or is complete.
OnBatchValues(rec, n) ==
  LET chunk == rec.chunks[InFlight(rec) + 1]
      be == Append(rec.batchEmbeddings, ProviderValues(chunk.content, n))
      logged == [rec EXCEPT !.outcomes =
                   Append(@, [pos |-> InFlight(rec), kind |-> "ok", len |-> n])]
  IN IF Len(be) < Len(Batch(rec))
     THEN [logged EXCEPT !.batchEmbeddings = be, !.fetchCalls = @ + 1]
     ELSE NextBatch([logged EXCEPT
                       !.embeddings = @ \o be,
                       !.totalTokens = @ + SumTokens(Batch(rec)),
                       !.i = @ + EmbedBatchSize])

\* OnBatchFailure with the placeholder loop left out.
OnBatchFailure_NoPlaceholder(rec, kind) ==
  LET logged == [rec EXCEPT !.outcomes =
                   Append(@, [pos |-> InFlight(rec), kind |-> kind, len |-> 0])]
  IN NextBatch([logged EXCEPT
                  !.errors = Append(@, <<"Erreur batch",
                                         (rec.i \div EmbedBatchSize) + 1, kind>>),
                  !.i = @ + EmbedBatchSize])

\* OnBatchFailure naming the batch by Math.floor(i/batchSize), without + 1.
OnBatchFailure_ZeroBasedOrdinal(rec, kind) ==
  LET logged == [rec EXCEPT !.outcomes =
                   Append(@, [pos |-> InFlight(rec), kind |-> kind, len |-> 0])]
  IN NextBatch([logged EXCEPT
                  !.errors = Append(@, <<"Erreur batch",
                                         rec.i \div EmbedBatchSize, kind>>),
                  !.embeddings =
                     @ \o [j \in 1..Len(Batch(rec)) |-> ZeroVector(dimensions)],
                  !.i = @ + EmbedBatchSize])

\* A request of generateGeminiBatch failed: the throw leaves the batch and is
\* caught in generateEmbeddings, which pushes one placeholder per chunk of the
\* batch.
OnBatchFailure(rec, kind) ==
  LET logged == [rec EXCEPT !.outcomes =
                   Append(@, [pos |-> InFlight(rec), kind |-> kind, len |-> 0])]
  IN NextBatch([logged EXCEPT
                  !.errors = Append(@, <<"Erreur batch",
                                         (rec.i \div EmbedBatchSize) + 1, kind>>),
                  !.embeddings =
                     @ \o [j \in 1..Len(Batch(rec)) |-> ZeroVector(dimensions)],
                  !.i = @ + EmbedBatchSize])

\* A fresh call frame.
Call(op) == [IdleRun EXCEPT !.op = op, !.storeAtCall = store]

Others == UNCHANGED <<geminiApiKey, localStorage, store, nextId, datasets>>

\* embeddingService.generateEmbeddings(chunks)
GenerateEmbeddings(r, c) ==
  /\ run[r].pc = "idle"
  /\ run' = [run EXCEPT ![r] =
       EnterGenerate([Call("generateEmbeddings") EXCEPT
                        !.chunks = DocumentChunks(c)], geminiApiKey)]
  /\ Others

\* The provider answers 2xx with { embedding: { values } } of n entries.
EmbedContentOk(r, n) ==
  /\ run[r].pc = "fetch"
  /\ run' = [run EXCEPT ![r] = OnBatchValues(run[r], n)]
  /\ Others

\* The provider request fails: non-2xx, no embedding.values, or fetch rejects.
EmbedContentFail(r, kind) ==
  /\ run[r].pc = "fetch"
  /\ run' = [run EXCEPT ![r] = OnBatchFailure(run[r], kind)]
  /\ Others

\* setGeminiApiKey(apiKey)
SetGeminiApiKey(apiKey) ==
  /\ geminiApiKey' = apiKey
  /\ localStorage' = apiKey
  /\ UNCHANGED <<store, nextId, datasets, run>>

\* The caller has taken the settled promise; the run can make another call.
Return(r) ==
  /\ run[r].pc = "done"
  /\ run[r].caller = "none"
  /\ run' = [run EXCEPT ![r] = IdleRun]
  /\ Others

\* ----------------------------------------------------- RAGService.indexDataset
\* IndexDataset without the throw on zero chunks.
IndexDataset_NoEmptyCheck(r, gemId, datasetId, c) ==
  /\ run[r].pc = "idle"
  /\ nextId + c <= MaxRows + 1
  /\ run' = [run EXCEPT ![r] =
       EnterGenerate([Call("indexDataset") EXCEPT
                        !.gemId = gemId, !.datasetId = datasetId,
                        !.chunks = DocumentChunks(c)], geminiApiKey)]
  /\ Others

\* ragService.indexDataset(gemId, datasetId, content, ...) up to its first
\* await: the chunker runs, zero chunks throw, generateEmbeddings is entered.
IndexDataset(r, gemId, datasetId, c) ==
  /\ run[r].pc = "idle"
  /\ nextId + c <= MaxRows + 1
  /\ LET rec == [Call("indexDataset") EXCEPT
                   !.gemId = gemId, !.datasetId = datasetId,
                   !.chunks = DocumentChunks(c)]
     IN run' = [run EXCEPT ![r] =
          IF Len(rec.chunks) = 0
          THEN [rec EXCEPT !.pc = "done", !.result = Rejected("no_chunks")]
          ELSE EnterGenerate(rec, geminiApiKey)]
  /\ Others

\* embeddingRecords.slice(i, i + batchSize)
InsertBatch(rec) == Slice(rec.embeddingRecords, rec.i, InsertBatchSize)

\* The store is known by its answers only: an insert answers either with the
\* rows inserted or with { error } and no row inserted.  Which of the two is
\* the store's choice (row-level security, the width of the vector column in
\* the schema, the network), so both are possible for every batch.
\*
\* supabase.from('embeddings').insert(batch) answers without error: the rows
\* of the batch are in the table, each with a generated id.
InsertOk(r) ==
  /\ run[r].pc = "insert"
  /\ LET batch == InsertBatch(run[r])
     IN /\ store' = store \o
             [k \in 1..Len(batch) |->
                [id |-> nextId + k - 1,
                 gem_id |-> batch[k].gem_id,
                 dataset_id |-> batch[k].dataset_id,
                 content |-> batch[k].content,
                 metadata |-> batch[k].metadata,
                 embedding |-> batch[k].embedding]]
        /\ nextId' = nextId + Len(batch)
        /\ run' = [run EXCEPT ![r] =
             NextInsert([run[r] EXCEPT
                           !.inserts = Append(@, [ok |-> TRUE,
                                                  size |-> Len(batch)]),
                           !.insertedIds =
                              @ \cup (nextId..(nextId + Len(batch) - 1)),
                           !.insertedCount = @ + Len(batch),
                           !.i = @ + InsertBatchSize])]
  /\ UNCHANGED <<geminiApiKey, localStorage, datasets>>

\* InsertError throwing out of the insert loop.
InsertError_Abort(r) ==
  /\ run[r].pc = "insert"
  /\ run' = [run EXCEPT ![r] =
       [run[r] EXCEPT
          !.inserts = Append(@, [ok |-> FALSE,
                                 size |-> Len(InsertBatch(run[r]))]),
          !.pc = "done",
          !.result = Rejected("insert")]]
  /\ Others

\* The insert answers { error }: no row of the batch is in the table.
InsertError(r) ==
  /\ run[r].pc = "insert"
  /\ run' = [run EXCEPT ![r] =
       NextInsert([run[r] EXCEPT
                     !.inserts = Append(@, [ok |-> FALSE,
                                            size |-> Len(InsertBatch(run[r]))]),
                     !.stats.errors =
                        Append(@, <<"Erreur insertion batch",
                                    (run[r].i \div InsertBatchSize) + 1>>),
                     !.i = @ + InsertBatchSize])]
  /\ Others

\* ------------------------------------------------ single embedding and search
\* generateSingleEmbedding up to its await.
EnterSingle(rec, key) ==
  IF ~isProviderConfigured(key)
  THEN [rec EXCEPT !.pc = "done", !.result = Rejected("config")]
  ELSE [rec EXCEPT !.pc = "qfetch", !.fetchCalls = @ + 1]

\* embeddingService.generateSingleEmbedding(text)
GenerateSingleEmbedding(r, text) ==
  /\ run[r].pc = "idle"
  /\ run' = [run EXCEPT ![r] =
       EnterSingle([Call("generateSingleEmbedding") EXCEPT !.query = text],
                   geminiApiKey)]
  /\ Others

\* ragService.searchSimilar(gemId, query)
SearchSimilar(r, gemId, query) ==
  /\ run[r].pc = "idle"
  /\ run' = [run EXCEPT ![r] =
       EnterSingle([Call("searchSimilar") EXCEPT
                      !.gemId = gemId, !.query = query], geminiApiKey)]
  /\ Others

\* ragService.searchForAI(gemId, query)
SearchForAI(r, gemId, query) ==
  /\ run[r].pc = "idle"
  /\ run' = [run EXCEPT ![r] =
       EnterSingle([Call("searchForAI") EXCEPT
                      !.gemId = gemId, !.query = query], geminiApiKey)]
  /\ Others

\* ragService.searchSimilar(gemId, query, config)
SearchSimilarWith(r, gemId, query, config) ==
  /\ run[r].pc = "idle"
  /\ run' = [run EXCEPT ![r] =
       EnterSingle([Call("searchSimilar") EXCEPT
                      !.gemId = gemId, !.query = query, !.config = config],
                   geminiApiKey)]
  /\ Others

\* ragService.searchForAI(gemId, query, config)
SearchForAIWith(r, gemId, query, config) ==
  /\ run[r].pc = "idle"
  /\ run' = [run EXCEPT ![r] =
       EnterSingle([Call("searchForAI") EXCEPT
                      !.gemId = gemId, !.query = query, !.config = config],
                   geminiApiKey)]
  /\ Others

\* generateSingleGeminiEmbedding got embedding.values: it returns them as
\* they are; searchSimilar goes on to the match_embeddings rpc.
QueryEmbedOk(r, n) ==
  /\ run[r].pc = "qfetch"
  /\ LET v == ProviderValues(run[r].query, n)
         logged == [run[r] EXCEPT !.outcomes =
                      Append(@, [pos |-> 0, kind |-> "ok", len |-> n])]
     IN run' = [run EXCEPT ![r] =
          IF run[r].op = "generateSingleEmbedding"
          THEN [logged EXCEPT !.pc = "done", !.result = Resolved(v)]
          ELSE [logged EXCEPT !.pc = "rpc", !.queryEmbedding = v,
                              !.rpcCalls = @ + 1]]
  /\ Others

\* QueryEmbedFail recovering as the batch path does: searchSimilar goes on
\* with a zero vector.
QueryEmbedFail_Placeholder(r, kind) ==
  /\ run[r].pc = "qfetch"
  /\ LET logged == [run[r] EXCEPT !.outcomes =
                      Append(@, [pos |-> 0, kind |-> kind, len |-> 0])]
     IN run' = [run EXCEPT ![r] =
          IF run[r].op = "generateSingleEmbedding"
          THEN [logged EXCEPT !.pc = "done",
                              !.result = Resolved(ZeroVector(dimensions))]
          ELSE [logged EXCEPT !.pc = "rpc",
                              !.queryEmbedding = ZeroVector(dimensions),
                              !.rpcCalls = @ + 1]]
  /\ Others

\* generateSingleGeminiEmbedding throws; nothing on the way up catches it
\* without rethrowing.
QueryEmbedFail(r, kind) ==
  /\ run[r].pc = "qfetch"
  /\ run' = [run EXCEPT ![r] =
       [run[r] EXCEPT
          !.outcomes = Append(@, [pos |-> 0, kind |-> kind, len |-> 0]),
          !.pc = "done",
          !.result = Rejected(kind)]]
  /\ Others

\* Entries of a vector beyond head are 0, so dot products need head only.
Dot(a, b) == a.head[1] * b.head[1] + a.head[2] * b.head[2]

\* embedding <=> query_embedding has a value: the cosine distance of a zero
\* vector is 0/0, NaN.
HasCosine(e, q) == Dot(e, e) * Dot(q, q) # 0

\* 1 - (embedding <=> query_embedding) > match_threshold for vectors that
\* have a cosine, threshold in hundredths.
AboveThreshold(e, q, threshold) ==
  /\ HasCosine(e, q)
  /\ Dot(e, q) > 0
  /\ Dot(e, q) * Dot(e, q) * 10000 > threshold * threshold * Dot(e, e) * Dot(q, q)

\* Row a comes before row b in ORDER BY embedding <=> query_embedding: it is
\* strictly nearer to q (both above a threshold >= 0), or it has a cosine
\* and b has none (NaN sorts after every number).
Nearer(a, b, q) ==
  /\ HasCosine(a, q)
  /\ \/ ~HasCosine(b, q)
     \/ Dot(a, q) * Dot(a, q) * Dot(b, b) > Dot(b, q) * Dot(b, q) * Dot(a, a)

RECURSIVE OrderByDistance(_, _, _)
\* ORDER BY embedding <=> query_embedding ; ties in table order.
OrderByDistance(rows, ks, q) ==
  IF ks = {} THEN <<>>
  ELSE LET best == CHOOSE k \in ks :
                     \A m \in ks \ {k} :
                        \/ Nearer(rows[k].embedding, rows[m].embedding, q)
                        \/ /\ ~Nearer(rows[m].embedding, rows[k].embedding, q)
                           /\ k < m
       IN <<rows[best]>> \o OrderByDistance(rows, ks \ {best}, q)

\* match_embeddings without 'embeddings.gem_id = match_gem_id'.
match_embeddings_AnyGem(rows, query_embedding, match_gem_id, match_threshold, match_count, nan_passes) ==
  LET ks == {k \in 1..Len(rows) :
               IF HasCosine(rows[k].embedding, query_embedding)
               THEN AboveThreshold(rows[k].embedding, query_embedding,
                                   match_threshold)
               ELSE nan_passes}
      ordered == OrderByDistance(rows, ks, query_embedding)
      limited == SubSeq(ordered, 1, Min(match_count, Len(ordered)))
  IN [k \in 1..Len(limited) |->
        [id |-> limited[k].id,
         content |-> limited[k].content,
         metadata |-> limited[k].metadata,
         similarity |->
            [dot |-> Dot(limited[k].embedding, query_embedding),
             norms2 |-> Dot(limited[k].embedding, limited[k].embedding)
                          * Dot(query_embedding, query_embedding)]]]

\* The SQL function match_embeddings.  Where the distance is NaN the
\* comparison with match_threshold is the database's: PostgreSQL orders NaN
\* above every number, so a sequential scan lets the row through, while the
\* ivfflat cosine index holds no zero vector, so an index scan does not;
\* nan_passes is which of the two the planner took.
match_embeddings(rows, query_embedding, match_gem_id, match_threshold, match_count, nan_passes) ==
  LET ks == {k \in 1..Len(rows) :
               /\ rows[k].gem_id = match_gem_id
               /\ IF HasCosine(rows[k].embedding, query_embedding)
                  THEN AboveThreshold(rows[k].embedding, query_embedding,
                                      match_threshold)
                  ELSE nan_passes}
      ordered == OrderByDistance(rows, ks, query_embedding)
      limited == SubSeq(ordered, 1, Min(match_count, Len(ordered)))
  IN [k \in 1..Len(limited) |->
        [id |-> limited[k].id,
         content |-> limited[k].content,
         metadata |-> limited[k].metadata,
         similarity |->
            [dot |-> Dot(limited[k].embedding, query_embedding),
             norms2 |-> Dot(limited[k].embedding, limited[k].embedding)
                          * Dot(query_embedding, query_embedding)]]]

\* BuildContext numbering the blocks and the sources from 0.
BuildContext_FromZero(searchResult) ==
  [context |-> [k \in 1..Len(searchResult.matches) |->
                  <<"[Source", k - 1, searchResult.matches[k].content>>],
   sources |-> [k \in 1..Len(searchResult.matches) |-> <<"Source", k - 1>>],
   searchResult |-> searchResult]

\* searchForAI after searchSimilar has returned.  context is the sequence of
\* its blocks '[Source k] content', which join('\n\n') turns into one string
\* that is '' exactly when there is no block; a source is its head
\* 'Source k: ', the file name and section after it are left out.
BuildContext(searchResult) ==
  [context |-> [k \in 1..Len(searchResult.matches) |->
                  <<"[Source", k, searchResult.matches[k].content>>],
   sources |-> [k \in 1..Len(searchResult.matches) |-> <<"Source", k>>],
   searchResult |-> searchResult]

\* The rpc answers with rows: pgvector compares vectors of one length only.
RpcOk(r) ==
  /\ run[r].pc = "rpc"
  /\ \A k \in 1..Len(store) :
        store[k].gem_id = run[r].gemId
          => store[k].embedding.len = run[r].queryEmbedding.len
  /\ \E nan_passes \in BOOLEAN :
     LET matches == match_embeddings(store, run[r].queryEmbedding,
                                     run[r].gemId,
                                     run[r].config.similarityThreshold,
                                     run[r].config.maxMatches, nan_passes)
         searchResult == [matches |-> matches,
                          query |-> run[r].query,
                          threshold |-> run[r].config.similarityThreshold,
                          total_matches |-> Len(matches)]
     IN run' = [run EXCEPT ![r] =
          [run[r] EXCEPT
             !.pc = "done",
             !.result = IF run[r].op = "searchForAI"
                        THEN Resolved(BuildContext(searchResult))
                        ELSE Resolved(searchResult)]]
  /\ Others

\* The rpc answers { error }: searchSimilar throws 'Erreur recherche'.
RpcError(r) ==
  /\ run[r].pc = "rpc"
  /\ run' = [run EXCEPT ![r] =
       [run[r] EXCEPT !.pc = "done", !.result = Rejected("rpc")]]
  /\ Others

\* ------------------------------------------- removal, reindexing, hasEmbeddings
\* Collections and documents of the operations below.
Collections == {"gemA", "gemB"}
Documents == {"ds1", "ds2"}

\* Targeted without the .eq filter: the delete is aimed at every row.
Targeted_Any(rec, row) == TRUE

\* Targeted with the filter on the collection: .eq('gem_id', gemId).
Targeted_ByCollection(rec, row) == row.gem_id = rec.gemId

\* The rows a delete of run rec is aimed at: .eq('dataset_id', datasetId) in
\* removeDatasetEmbeddings (and so in reindexDataset), .eq('gem_id', gemId) in
\* removeGemEmbeddings.
Targeted(rec, row) ==
  IF rec.op = "removeGemEmbeddings"
  THEN row.gem_id = rec.gemId
  ELSE row.dataset_id = rec.datasetId

\* ragService.removeDatasetEmbeddings(datasetId) up to the await of the delete
RemoveDatasetEmbeddings(r, datasetId) ==
  /\ run[r].pc = "idle"
  /\ run' = [run EXCEPT ![r] =
       [Call("removeDatasetEmbeddings") EXCEPT
          !.datasetId = datasetId, !.pc = "delete", !.deleteCalls = 1]]
  /\ Others

\* ragService.removeGemEmbeddings(gemId) up to the await of the delete
RemoveGemEmbeddings(r, gemId) ==
  /\ run[r].pc = "idle"
  /\ run' = [run EXCEPT ![r] =
       [Call("removeGemEmbeddings") EXCEPT
          !.gemId = gemId, !.pc = "delete", !.deleteCalls = 1]]
  /\ Others

\* ReindexDataset chunking before it deletes: zero chunks throw first.
ReindexDataset_ChunkFirst(r, gemId, datasetId, c) ==
  /\ run[r].pc = "idle"
  /\ nextId + c <= MaxRows + 1
  /\ run' = [run EXCEPT ![r] =
       IF Len(DocumentChunks(c)) = 0
       THEN [Call("reindexDataset") EXCEPT
               !.gemId = gemId, !.datasetId = datasetId, !.content = c,
               !.pc = "done", !.result = Rejected("no_chunks")]
       ELSE [Call("reindexDataset") EXCEPT
               !.gemId = gemId, !.datasetId = datasetId, !.content = c,
               !.pc = "delete", !.deleteCalls = 1]]
  /\ Others

\* ragService.reindexDataset(gemId, datasetId, content, ...) up to the await
\* of removeDatasetEmbeddings' delete.
ReindexDataset(r, gemId, datasetId, c) ==
  /\ run[r].pc = "idle"
  /\ nextId + c <= MaxRows + 1
  /\ run' = [run EXCEPT ![r] =
       [Call("reindexDataset") EXCEPT
          !.gemId = gemId, !.datasetId = datasetId, !.content = c,
          !.pc = "delete", !.deleteCalls = 1]]
  /\ Others

\* The table after a delete that removes nothing.
RowsKept_None(rec, rows) == rows

\* The table after the delete of run rec.
RowsKept(rec, rows) ==
  LET Keep(row) == ~Targeted(rec, row) IN SelectSeq(rows, Keep)

\* The code after the delete has answered with data (the rows deleted):
\* removeDatasetEmbeddings / removeGemEmbeddings return { deleted_count };
\* reindexDataset goes on into indexDataset up to its first await.
AfterDelete(rec, data, key) ==
  LET counted == [rec EXCEPT !.deletedCount = Len(data)]
  IN IF rec.op = "reindexDataset"
     THEN LET indexing == [counted EXCEPT
                             !.chunks = DocumentChunks(rec.content)]
          IN IF Len(indexing.chunks) = 0
             THEN [indexing EXCEPT !.pc = "done",
                                   !.result = Rejected("no_chunks")]
             ELSE EnterGenerate(indexing, key)
     ELSE [counted EXCEPT
             !.pc = "done",
             !.result = Resolved([deleted_count |-> counted.deletedCount])]

\* The delete answers without error: the targeted rows are gone and come
\* back as data.
DeleteOk(r) ==
  /\ run[r].pc = "delete"
  /\ LET IsTargeted(row) == Targeted(run[r], row)
         data == SelectSeq(store, IsTargeted)
     IN /\ store' = RowsKept(run[r], store)
        /\ run' = [run EXCEPT ![r] =
             AfterDelete([run[r] EXCEPT
                            !.deletes = Append(@, [ok |-> TRUE,
                                                   size |-> Len(data)]),
                            !.deletedIds =
                               @ \cup {data[k].id : k \in 1..Len(data)}],
                         data, geminiApiKey)]
  /\ UNCHANGED <<geminiApiKey, localStorage, nextId, datasets>>

\* The delete answers { error }: 'Erreur suppression embeddings' is thrown
\* and rethrown up to the caller; no row is removed.
DeleteError(r) ==
  /\ run[r].pc = "delete"
  /\ run' = [run EXCEPT ![r] =
       [run[r] EXCEPT
          !.deletes = Append(@, [ok |-> FALSE, size |-> 0]),
          !.pc = "done",
          !.result = Rejected("delete")]]
  /\ Others

\* Ways the count query of hasEmbeddings ends: { count: n }, { count: null },
\* { error }, or a throw.
CountAnswers == {"count", "null", "error", "throw"}

\* ragService.hasEmbeddings(gemId) up to the await of the count query
HasEmbeddings(r, gemId) ==
  /\ run[r].pc = "idle"
  /\ run' = [run EXCEPT ![r] =
       [Call("hasEmbeddings") EXCEPT
          !.gemId = gemId, !.pc = "count", !.countCalls = 1]]
  /\ Others

\* select('*', { count: 'exact', head: true }).eq('gem_id', gemId)
CountOf(rows, gemId) ==
  Cardinality({k \in 1..Len(rows) : rows[k].gem_id = gemId})

\* HasEmbeddingsResult letting a throw of the store call reach the caller.
HasEmbeddingsResult_Rethrow(answer, count) ==
  IF answer = "throw" THEN Rejected("count")
  ELSE IF answer = "error" THEN Resolved(FALSE)
  ELSE IF answer = "null" THEN Resolved(FALSE)
  ELSE Resolved(count > 0)

\* What hasEmbeddings settles with: false on { error } and in the catch,
\* (count || 0) > 0 otherwise.
HasEmbeddingsResult(answer, count) ==
  IF answer = "throw" THEN Resolved(FALSE)
  ELSE IF answer = "error" THEN Resolved(FALSE)
  ELSE IF answer = "null" THEN Resolved(0 > 0)
  ELSE Resolved(count > 0)

\* The count query of hasEmbeddings ends.
CountAnswer(r, answer) ==
  /\ run[r].pc = "count"
  /\ run' = [run EXCEPT ![r] =
       [run[r] EXCEPT
          !.counts = Append(@, [answer |-> answer,
                                count |-> CountOf(store, run[r].gemId)]),
          !.pc = "done",
          !.result = HasEmbeddingsResult(answer,
                                         CountOf(store, run[r].gemId))]]
  /\ Others


\* ------------------------------------------------- useAI.generateResponse
\* Ways the onRAGSearch callback of the options ends: there is none, it
\* returns, it throws.
Callbacks == {"none", "returns", "throws"}

\* SendChat giving up instead when the RAG step has failed.
SendChat_OnlyWithoutError(rec) ==
  IF rec.ai.ragError # NULL
  THEN [rec EXCEPT !.pc = "aidone", !.result = Resolved(NULL)]
  ELSE [rec EXCEPT !.pc = "chat",
                   !.ai.requests = Append(@, rec.ai.enhancedPrompt)]

\* The chat request is built from enhancedPrompt and sent: the await of
\* aiService.generateResponse(request).
SendChat(rec) ==
  [rec EXCEPT !.pc = "chat",
              !.ai.requests = Append(@, rec.ai.enhancedPrompt)]

\* useAI.generateResponse(gem, messages, userMessage, useRAG) up to its first
\* await: hasEmbeddings when RAG is on, the chat request otherwise.
GenerateResponse(r, gemId, userMessage, useRAG) ==
  /\ run[r].pc = "idle"
  /\ run' = [run EXCEPT ![r] =
       IF useRAG
       THEN [Call("hasEmbeddings") EXCEPT
               !.gemId = gemId, !.query = userMessage,
               !.pc = "count", !.countCalls = 1,
               !.caller = "useAI", !.ai.useRAG = TRUE]
       ELSE SendChat([Call("generateResponse") EXCEPT
                        !.gemId = gemId, !.query = userMessage,
                        !.caller = "useAI"])]
  /\ Others

\* hasEmbeddings has settled: isConfigured is read, and either searchForAI is
\* entered or the RAG step is over.  A rejection would land in the catch of
\* the RAG step.
AfterHasEmbeddings(r) ==
  /\ run[r].caller = "useAI"
  /\ run[r].op = "hasEmbeddings"
  /\ run[r].pc = "done"
  /\ run' = [run EXCEPT ![r] =
       IF run[r].result.status = "rejected"
       THEN SendChat([run[r] EXCEPT !.op = "generateResponse",
                                    !.ai.ragError = run[r].result.error])
       ELSE LET seen == [run[r].ai EXCEPT
                           !.hasEmbeddings = Shown(run[r].result.value),
                           !.isConfigured = Shown(isConfigured(geminiApiKey))]
            IN IF run[r].result.value /\ isConfigured(geminiApiKey)
               THEN EnterSingle([Call("searchForAI") EXCEPT
                                   !.gemId = run[r].gemId,
                                   !.query = run[r].query,
                                   !.caller = "useAI", !.ai = seen],
                                geminiApiKey)
               ELSE SendChat([run[r] EXCEPT !.op = "generateResponse",
                                            !.ai = seen])]
  /\ Others

\* context && context.trim().length > 0: a block '[Source k] ...' is never
\* blank, so the joined string is blank exactly when there is no block.
ContextPresent(context) == context # <<>>

\* searchForAI has settled.  A rejection, and a throw of the onRAGSearch
\* callback, land in the catch of the RAG step, which only warns; otherwise
\* the prompt is enriched when the context is present.  Then the chat request
\* is sent.
AfterSearchForAI(r, callback) ==
  /\ run[r].caller = "useAI"
  /\ run[r].op = "searchForAI"
  /\ run[r].pc = "done"
  /\ run' = [run EXCEPT ![r] =
       LET rec == [run[r] EXCEPT !.op = "generateResponse"]
       IN IF run[r].result.status = "rejected"
          THEN SendChat([rec EXCEPT !.ai.ragError = run[r].result.error])
          ELSE IF callback = "throws"
          THEN SendChat([rec EXCEPT !.ai.ragError = "onRAGSearch"])
          ELSE IF ContextPresent(run[r].result.value.context)
          THEN SendChat([rec EXCEPT
                  !.ai.context = run[r].result.value.context,
                  !.ai.enhancedPrompt =
                     <<GemPrompt, "=== CONTEXTE DES DONNEES ===",
                       run[r].result.value.context, "=== INSTRUCTIONS ===">>,
                  !.ai.contextUsed = Shown(TRUE)])
          ELSE SendChat([rec EXCEPT !.ai.contextUsed = Shown(FALSE)])]
  /\ Others

\* aiService.generateResponse answers: the enhanced response is returned.
ChatOk(r) ==
  /\ run[r].pc = "chat"
  /\ run' = [run EXCEPT ![r] =
       [run[r] EXCEPT
          !.pc = "aidone",
          !.result = Resolved([ragContextUsed |-> run[r].ai.contextUsed])]]
  /\ Others

\* aiService.generateResponse throws: the outer catch sets the error and
\* generateResponse returns null.
ChatFail(r) ==
  /\ run[r].pc = "chat"
  /\ run' = [run EXCEPT ![r] =
       [run[r] EXCEPT !.pc = "aidone", !.result = Resolved(NULL)]]
  /\ Others

\* The caller has taken the result of generateResponse.
ReturnAI(r) ==
  /\ run[r].pc = "aidone"
  /\ run' = [run EXCEPT ![r] = IdleRun]
  /\ Others


\* ------------------------------------- DatasetService.indexDatasetInBackground
\* The statuses of IndexingProgress.
Statuses ==
  {"starting", "chunking", "embedding", "saving", "completed", "error"}

\* The progress callbacks a caller passes: one that returns from every call
\* and ones that throw when called with one of the statuses of throwsOn.
ProgressCallbacks ==
  {[present |-> TRUE, throwsOn |-> t] :
     t \in {{}, {"starting"}, {"embedding"}, {"completed"}, {"error"},
            {"completed", "error"}}}

\* indexDatasetInBackground of frame rec was given an onProgress: the
\* caller's, or the function DatasetService.indexDataset wraps around it.
Listening(rec) == rec.outer = "indexDataset" \/ rec.callback.present

\* The call of onProgress with status throws: the caller's callback does.
Throws(rec, status) ==
  /\ Listening(rec)
  /\ rec.callback.present
  /\ status \in rec.callback.throwsOn

\* onProgress?.({ status, ..., stats }): nothing without a callback;
\* otherwise the status is delivered; the function of
\* DatasetService.indexDataset first calls the caller's onProgress and then,
\* unless that threw, resolves its promise with the stats on 'completed' and
\* rejects it on 'error' (a settled promise stays as it is).
Deliver(rec, status, stats) ==
  IF ~Listening(rec) THEN rec
  ELSE LET told == [rec EXCEPT
                      !.progress = Append(@, status),
                      !.completedWith =
                         IF status = "completed" THEN stats ELSE @]
       IN IF /\ rec.outer = "indexDataset"
             /\ ~Throws(rec, status)
             /\ rec.promise = Pending
             /\ status \in {"completed", "error"}
          THEN [told EXCEPT
                  !.promise = IF status = "completed"
                              THEN Resolved(stats)
                              ELSE Rejected("progress")]
          ELSE told

\* The catch block of indexDatasetInBackground: 'error' is reported and the
\* promise of indexDatasetInBackground resolves, unless the callback throws
\* again, which rejects it.
Catch(rec) ==
  [Deliver(rec, "error", <<>>) EXCEPT
     !.op = "indexDatasetInBackground",
     !.pc = "bgdone",
     !.result = IF Throws(rec, "error") THEN Rejected("callback")
                ELSE Resolved(NULL)]

\* indexDatasetInBackground up to its first await, from the frame rec:
\* 'starting' is reported; without a key the throw is caught; otherwise
\* 'chunking' and 'embedding' are reported and ragService.indexDataset is
\* entered.  A throw of the callback is caught like any other.
StartBackground(rec, key) ==
  LET starting == Deliver(rec, "starting", <<>>)
      chunking == Deliver(starting, "chunking", <<>>)
      embedding == Deliver(chunking, "embedding", <<>>)
      entered == [embedding EXCEPT
                    !.op = "indexDataset",
                    !.chunks = DocumentChunks(rec.content)]
  IN IF Throws(rec, "starting") \/ ~isConfigured(key) THEN Catch(starting)
     ELSE IF Throws(rec, "chunking") THEN Catch(chunking)
     ELSE IF Throws(rec, "embedding") THEN Catch(embedding)
     ELSE IF Len(entered.chunks) = 0
     THEN [entered EXCEPT !.pc = "done", !.result = Rejected("no_chunks")]
     ELSE EnterGenerate(entered, key)

\* indexDatasetInBackground(dataset, parsedData, ragConfig, onProgress) up to
\* its first await.  progress is the list of the statuses onProgress has
\* been called with.
IndexDatasetInBackground(r, gemId, datasetId, c, callback) ==
  /\ run[r].pc = "idle"
  /\ nextId + c <= MaxRows + 1
  /\ run' = [run EXCEPT ![r] =
       StartBackground([Call("indexDatasetInBackground") EXCEPT
                          !.gemId = gemId, !.datasetId = datasetId,
                          !.content = c, !.caller = "background",
                          !.callback = callback],
                       geminiApiKey)]
  /\ Others

\* ragService.indexDataset has settled: 'completed' is reported with the
\* stats, or the rejection is caught and 'error' is reported; a throw of
\* the callback called with 'completed' is caught as well.
AfterIndexDataset(r) ==
  /\ run[r].caller = "background"
  /\ run[r].op = "indexDataset"
  /\ run[r].pc = "done"
  /\ run' = [run EXCEPT ![r] =
       IF run[r].result.status = "resolved"
       THEN LET completed ==
                  Deliver(run[r], "completed", run[r].result.value)
            IN IF Throws(run[r], "completed") THEN Catch(completed)
               ELSE [completed EXCEPT
                       !.op = "indexDatasetInBackground",
                       !.pc = "bgdone",
                       !.result = Resolved(NULL)]
       ELSE Catch(run[r])]
  /\ Others

\* The promise of indexDatasetInBackground has settled and nobody waits for
\* it: the run is over.
ReturnBackground(r) ==
  /\ run[r].pc = "bgdone"
  /\ run[r].outer = "none"
  /\ run' = [run EXCEPT ![r] = IdleRun]
  /\ Others

\* ----------------------------------- DatasetService.indexDataset, uploadFile
\* The row of dataset id in the datasets table, as a list of zero or one.
DatasetRows(id) ==
  LET IsIt(row) == row.id = id IN SelectSeq(datasets, IsIt)

\* DatasetService.indexDataset(datasetId, ragConfig, onProgress) up to the
\* await of getDataset.
DatasetService_indexDataset(r, datasetId, callback) ==
  /\ run[r].pc = "idle"
  /\ run' = [run EXCEPT ![r] =
       [Call("DatasetService.indexDataset") EXCEPT
          !.datasetId = datasetId, !.callback = callback,
          !.outer = "indexDataset", !.pc = "getDataset"]]
  /\ Others

\* getDataset answers with the row: the promise is created and
\* indexDatasetInBackground runs up to its first await with the function
\* that settles the promise as its onProgress.
GetDatasetRow(r) ==
  /\ run[r].pc = "getDataset"
  /\ DatasetRows(run[r].datasetId) # <<>>
  /\ nextId + DatasetRows(run[r].datasetId)[1].content <= MaxRows + 1
  /\ run' = [run EXCEPT ![r] =
       StartBackground([run[r] EXCEPT
                          !.gemId = DatasetRows(run[r].datasetId)[1].gem_id,
                          !.content = DatasetRows(run[r].datasetId)[1].content,
                          !.caller = "background"],
                       geminiApiKey)]
  /\ Others

\* getDataset answers null (PGRST116, no such row): 'Dataset introuvable'.
GetDatasetNone(r) ==
  /\ run[r].pc = "getDataset"
  /\ DatasetRows(run[r].datasetId) = <<>>
  /\ run' = [run EXCEPT ![r] =
       [run[r] EXCEPT !.pc = "dsdone",
                      !.promise = Rejected("Dataset introuvable"),
                      !.result = Rejected("Dataset introuvable")]]
  /\ Others

\* getDataset throws on any other error of the select.
GetDatasetError(r) ==
  /\ run[r].pc = "getDataset"
  /\ run' = [run EXCEPT ![r] =
       [run[r] EXCEPT !.pc = "dsdone",
                      !.promise = Rejected("getDataset"),
                      !.result = Rejected("getDataset")]]
  /\ Others

\* The promise of indexDatasetInBackground has settled under
\* DatasetService.indexDataset: .catch(reject) rejects the outer promise if
\* it is still pending; the caller gets the outer promise.
AfterIndexDatasetInBackground(r) ==
  /\ run[r].pc = "bgdone"
  /\ run[r].outer = "indexDataset"
  /\ run' = [run EXCEPT ![r] =
       LET caught ==
             IF run[r].result.status = "rejected" /\ run[r].promise = Pending
             THEN Rejected("callback")
             ELSE run[r].promise
       IN [run[r] EXCEPT
             !.op = "DatasetService.indexDataset",
             !.pc = "dsdone",
             !.promise = caught,
             !.result = caught]]
  /\ Others

\* The caller has taken the promise of DatasetService.indexDataset.
ReturnDataset(r) ==
  /\ run[r].pc = "dsdone"
  /\ run' = [run EXCEPT ![r] = IdleRun]
  /\ Others

\* uploadFile calling onProgress with progress p (10, 30, 60, 90 on the way,
\* 100 with 'completed', 0 with 'error').
Reported(rec, p) == [rec EXCEPT !.upload.reported = Append(@, p)]

\* The catch block of uploadFile: progress 0 is reported with status 'error'
\* and the error thrown again.
UploadFailed(rec, why) ==
  [Reported(rec, 0) EXCEPT !.pc = "updone", !.result = Rejected(why)]

\* DatasetService.uploadFile(gemId, file, onProgress, autoIndex, ragConfig,
\* onIndexingProgress) up to the await of parseFile; c is what the file
\* parses to, valid what validateFile finds.
UploadFile(r, gemId, c, valid, autoIndex, callback) ==
  /\ run[r].pc = "idle"
  /\ LET rec == [Call("uploadFile") EXCEPT
                   !.gemId = gemId, !.content = c,
                   !.upload = [NoUpload EXCEPT !.autoIndex = autoIndex,
                                               !.callback = callback]]
     IN run' = [run EXCEPT ![r] =
          IF ~valid THEN UploadFailed(Reported(rec, 10), "validation")
          ELSE [Reported(Reported(rec, 10), 30) EXCEPT !.pc = "parseFile"]]
  /\ Others

\* parseFile resolves: the upload to the storage bucket is sent.
ParseFileOk(r) ==
  /\ run[r].pc = "parseFile"
  /\ run' = [run EXCEPT ![r] = [Reported(run[r], 60) EXCEPT !.pc = "upload"]]
  /\ Others

\* parseFile rejects.
ParseFileFail(r) ==
  /\ run[r].pc = "parseFile"
  /\ run' = [run EXCEPT ![r] = UploadFailed(run[r], "parse")]
  /\ Others

\* The bucket has the file: auth.getUser is asked.
StorageUploadOk(r) ==
  /\ run[r].pc = "upload"
  /\ run' = [run EXCEPT ![r] =
       [Reported(run[r], 90) EXCEPT !.upload.stored = TRUE, !.pc = "getUser"]]
  /\ Others

\* The bucket answers { error }.
StorageUploadError(r) ==
  /\ run[r].pc = "upload"
  /\ run' = [run EXCEPT ![r] = UploadFailed(run[r], "upload")]
  /\ Others

\* There is a signed-in user: the insert into datasets is sent.
GetUserOk(r) ==
  /\ run[r].pc = "getUser"
  /\ run' = [run EXCEPT ![r] = [run[r] EXCEPT !.pc = "insertDataset"]]
  /\ Others

\* No user: 'Utilisateur non authentifie'.
GetUserNone(r) ==
  /\ run[r].pc = "getUser"
  /\ run' = [run EXCEPT ![r] = UploadFailed(run[r], "auth")]
  /\ Others

\* InsertDatasetOk starting the background indexing in run s before the row
\* is in the table.
InsertDatasetOk_IndexFirst(r, id, s) ==
  /\ run[r].pc = "insertDataset"
  /\ DatasetRows(id) = <<>>
  /\ s # r
  /\ run[s].pc = "idle"
  /\ nextId + run[r].content <= MaxRows + 1
  /\ run[r].upload.autoIndex
  /\ run' = [run EXCEPT
       ![r] = [run[r] EXCEPT !.upload.started = s],
       ![s] = StartBackground(
                [Call("indexDatasetInBackground") EXCEPT
                   !.gemId = run[r].gemId, !.datasetId = id,
                   !.content = run[r].content, !.caller = "background",
                   !.callback = run[r].upload.callback],
                geminiApiKey)]
  /\ Others

\* The insert into datasets answers with the new row, whose id the database
\* chose: 100 is reported; with autoIndex indexDatasetInBackground is called
\* and not awaited (it runs up to its first await, in run s); the dataset is
\* returned.
InsertDatasetOk(r, id, s) ==
  /\ run[r].pc = "insertDataset"
  /\ DatasetRows(id) = <<>>
  /\ s # r
  /\ run[s].pc = "idle"
  /\ nextId + run[r].content <= MaxRows + 1
  /\ datasets' = Append(datasets, [id |-> id, gem_id |-> run[r].gemId,
                                   content |-> run[r].content])
  /\ run' = [run EXCEPT
       ![r] = [Reported(run[r], 100) EXCEPT
                 !.datasetId = id,
                 !.upload.started = IF run[r].upload.autoIndex THEN s ELSE 0,
                 !.pc = "updone",
                 !.result = Resolved(id)],
       ![s] = IF run[r].upload.autoIndex
              THEN StartBackground(
                     [Call("indexDatasetInBackground") EXCEPT
                        !.gemId = run[r].gemId, !.datasetId = id,
                        !.content = run[r].content, !.caller = "background",
                        !.callback = run[r].upload.callback],
                     geminiApiKey)
              ELSE run[s]]
  /\ UNCHANGED <<geminiApiKey, localStorage, store, nextId>>

\* The insert answers { error }: the removal of the uploaded file is sent.
InsertDatasetError(r) ==
  /\ run[r].pc = "insertDataset"
  /\ run' = [run EXCEPT ![r] = [run[r] EXCEPT !.pc = "remove"]]
  /\ Others

\* The removal has answered (its result is not looked at): the error of the
\* insert is thrown.
StorageRemoveDone(r, removed) ==
  /\ run[r].pc = "remove"
  /\ run' = [run EXCEPT ![r] =
       UploadFailed([run[r] EXCEPT !.upload.stored = ~removed], "database")]
  /\ Others

\* The caller has taken the promise of uploadFile.
ReturnUpload(r) ==
  /\ run[r].pc = "updone"
  /\ run' = [run EXCEPT ![r] = IdleRun]
  /\ Others

\* ---------------------------------------------------------- ChunkingService
\* A text handled by the chunker is a sequence of one-character strings.
\* The characters \s matches, among those the inputs are made of.
Whitespace == {" ", "\n"}

SetMin(S) == CHOOSE x \in S : \A y \in S : x <= y

RECURSIVE trimStart(_)
trimStart(s) ==
  IF s # <<>> /\ Head(s) \in Whitespace THEN trimStart(Tail(s)) ELSE s

RECURSIVE trimEnd(_)
trimEnd(s) ==
  IF s # <<>> /\ s[Len(s)] \in Whitespace
  THEN trimEnd(SubSeq(s, 1, Len(s) - 1))
  ELSE s

\* String.prototype.trim
trim(s) == trimEnd(trimStart(s))

\* text.substring(0, n)
substring(s, n) == SubSeq(s, 1, Min(n, Len(s)))

RECURSIVE join(_, _)
\* parts.join(sep)
join(parts, sep) ==
  IF parts = <<>> THEN <<>>
  ELSE IF Len(parts) = 1 THEN parts[1]
  ELSE parts[1] \o sep \o join(Tail(parts), sep)

RECURSIVE SplitLinesFrom(_, _, _)
\* The lines of s from s[start] on, s[i] being the character looked at.
SplitLinesFrom(s, start, i) ==
  IF i > Len(s) THEN <<SubSeq(s, start, Len(s))>>
  ELSE IF s[i] = "\n"
  THEN <<SubSeq(s, start, i - 1)>> \o SplitLinesFrom(s, i + 1, i + 1)
  ELSE SplitLinesFrom(s, start, i + 1)

\* text.split('\n')
splitLines(s) == SplitLinesFrom(s, 1, 1)

\* The last character of the match of /\n\s*\n/ that starts at s[i], or 0 when
\* there is none: \s* is greedy, so the match runs to the last line break of
\* the whitespace that follows s[i].  j is the character looked at, last the
\* last line break seen after s[i].
RECURSIVE ParagraphBreakEnd(_, _, _, _)
ParagraphBreakEnd(s, i, j, last) ==
  IF s[i] # "\n" THEN 0
  ELSE IF j > Len(s) \/ s[j] \notin Whitespace THEN last
  ELSE ParagraphBreakEnd(s, i, j + 1, IF s[j] = "\n" THEN j ELSE last)

RECURSIVE SplitParagraphsFrom(_, _, _)
\* The pieces of s from s[start] on, s[i] being the character looked at.
SplitParagraphsFrom(s, start, i) ==
  IF i > Len(s) THEN <<SubSeq(s, start, Len(s))>>
  ELSE IF ParagraphBreakEnd(s, i, i + 1, 0) = 0
  THEN SplitParagraphsFrom(s, start, i + 1)
  ELSE <<SubSeq(s, start, i - 1)>>
         \o SplitParagraphsFrom(s, ParagraphBreakEnd(s, i, i + 1, 0) + 1,
                                ParagraphBreakEnd(s, i, i + 1, 0) + 1)

\* content.split(/\n\s*\n/)
splitParagraphs(s) == SplitParagraphsFrom(s, 1, 1)

\* estimateTokens: Math.ceil(text.length / 4)
estimateTokens(text) == (Len(text) + 3) \div 4

\* countLines: text.split('\n').length, one more than the line breaks
countLines(text) == Cardinality({i \in 1..Len(text) : text[i] = "\n"}) + 1

\* lastPart.search(/[.!?]\s/): the index from 0 of the first match, or -1
searchSentenceEnd(s) ==
  LET hits == {i \in 1..(Len(s) - 1) :
                 s[i] \in {".", "!", "?"} /\ s[i + 1] \in Whitespace}
  IN IF hits = {} THEN -1 ELSE SetMin(hits) - 1

\* getOverlap(text, overlapSize); text.slice(-0) is the whole text.
getOverlap(text, overlapSize) ==
  IF overlapSize >= Len(text) THEN text
  ELSE LET lastPart ==
             IF overlapSize = 0 THEN text
             ELSE SubSeq(text, Len(text) - overlapSize + 1, Len(text))
           sentenceEnd == searchSentenceEnd(lastPart)
       IN IF sentenceEnd > 0
          THEN SubSeq(lastPart, sentenceEnd + 3, Len(lastPart))
          ELSE lastPart

\* TextChunk numbering the chunks as the section label does, from 1.
TextChunk_SectionNumber(content, currentChunk, chunkStart, index) ==
  [content |-> trim(currentChunk),
   metadata |->
     [chunk_index |-> index + 1,
      file_type |-> "txt",
      line_start |-> countLines(substring(content, chunkStart)),
      line_end |->
        countLines(substring(content, chunkStart + Len(currentChunk))),
      tokens |-> estimateTokens(currentChunk)]]

\* The chunk chunkText pushes for the running chunk; source_file and section
\* are left out (section is 'text_chunk_' and chunk_index + 1).
TextChunk(content, currentChunk, chunkStart, index) ==
  [content |-> trim(currentChunk),
   metadata |->
     [chunk_index |-> index,
      file_type |-> "txt",
      line_start |-> countLines(substring(content, chunkStart)),
      line_end |->
        countLines(substring(content, chunkStart + Len(currentChunk))),
      tokens |-> estimateTokens(currentChunk)]]

\* chunkText before the first paragraph.
TextStart == [chunks |-> <<>>, currentChunk |-> <<>>, chunkStart |-> 0]

\* One turn of the loop of chunkText over the paragraphs, from the locals st.
AddParagraph(st, paragraph, content, config) ==
  LET trimmedParagraph == trim(paragraph)
      closes ==
        /\ Len(st.currentChunk) + Len(trimmedParagraph) > config.chunkSize
        /\ Len(st.currentChunk) > 0
      overlapText == getOverlap(st.currentChunk, config.chunkOverlap)
      closed ==
        [chunks |->
           IF Len(st.currentChunk) >= config.minChunkSize
           THEN Append(st.chunks,
                       TextChunk(content, st.currentChunk, st.chunkStart,
                                 Len(st.chunks)))
           ELSE st.chunks,
         currentChunk |-> overlapText,
         chunkStart |->
           st.chunkStart + Len(st.currentChunk) - Len(overlapText)]
      from == IF closes THEN closed ELSE st
  IN IF trimmedParagraph = <<>> THEN st
     ELSE [from EXCEPT
             !.currentChunk =
                @ \o (IF @ # <<>> THEN <<"\n", "\n">> ELSE <<>>)
                  \o trimmedParagraph]

RECURSIVE TextLoop(_, _, _, _)
\* The locals of chunkText after the loop over paragraphs, from st.
TextLoop(st, paragraphs, content, config) ==
  IF paragraphs = <<>> THEN st
  ELSE TextLoop(AddParagraph(st, Head(paragraphs), content, config),
                Tail(paragraphs), content, config)

\* chunkText(content, fileName, config)
chunkText(content, config) ==
  LET st == TextLoop(TextStart, splitParagraphs(content), content, config)
  IN IF Len(trim(st.currentChunk)) >= config.minChunkSize
     THEN Append(st.chunks,
                 TextChunk(content, st.currentChunk, st.chunkStart,
                           Len(st.chunks)))
     ELSE st.chunks

\* Math.max(Math.floor(config.chunkSize / (length / count)), least); the
\* quotient of an empty text is Infinity, which no loop index reaches.
PerChunk(chunkSize, length, count, least) ==
  IF length = 0 THEN count + least
  ELSE IF (chunkSize * count) \div length > least
       THEN (chunkSize * count) \div length
       ELSE least

\* CsvChunk with line_end not held to the last line.
CsvChunk_Unclamped(lines, i, linesPerChunk, index) ==
  LET chunkContent ==
        lines[1] \o <<"\n">> \o join(Slice(lines, i, linesPerChunk), <<"\n">>)
  IN [content |-> chunkContent,
      metadata |->
        [chunk_index |-> index,
         file_type |-> "csv",
         line_start |-> i,
         line_end |-> i + linesPerChunk - 1,
         tokens |-> estimateTokens(chunkContent)]]

\* The chunk chunkCSV pushes for the lines i .. i + linesPerChunk - 1.
CsvChunk(lines, i, linesPerChunk, index) ==
  LET chunkContent ==
        lines[1] \o <<"\n">> \o join(Slice(lines, i, linesPerChunk), <<"\n">>)
  IN [content |-> chunkContent,
      metadata |->
        [chunk_index |-> index,
         file_type |-> "csv",
         line_start |-> i,
         line_end |-> Min(i + linesPerChunk - 1, Len(lines) - 1),
         tokens |-> estimateTokens(chunkContent)]]

RECURSIVE CsvLoop(_, _, _, _)
\* for (let i = 1; i < lines.length; i += linesPerChunk), from i with chunks
CsvLoop(chunks, lines, i, linesPerChunk) ==
  IF i < Len(lines)
  THEN CsvLoop(Append(chunks, CsvChunk(lines, i, linesPerChunk, Len(chunks))),
               lines, i + linesPerChunk, linesPerChunk)
  ELSE chunks

\* chunkCSV(csvContent, fileName, config)
chunkCSV(csvContent, config) ==
  LET lines == splitLines(csvContent)
      linesPerChunk ==
        PerChunk(config.chunkSize, Len(csvContent), Len(lines), 5)
  IN CsvLoop(<<>>, lines, 1, linesPerChunk)

\* A JSON value the inputs hold: a list of numbers or an object of numbers.
\* items are the literals of the numbers, keys the names of an object.
RECURSIVE Entries(_, _, _)
\* The serialized members of data from the k-th on, each after lead; the
\* colon of an object member is followed by gap.
Entries(data, k, lead) ==
  IF k > Len(data.items) THEN <<>>
  ELSE <<lead.indent
           \o (IF data.kind = "object"
               THEN <<"\"">> \o data.keys[k] \o <<"\"", ":">> \o lead.gap
               ELSE <<>>)
           \o data.items[k]>>
         \o Entries(data, k + 1, lead)

Open(data) == IF data.kind = "object" THEN <<"{">> ELSE <<"[">>

Close(data) == IF data.kind = "object" THEN <<"}">> ELSE <<"]">>

\* JSON.stringify(data): the text a document holding data is read from.
stringify(data) ==
  Open(data)
    \o join(Entries(data, 1, [indent |-> <<>>, gap |-> <<>>]), <<",">>)
    \o Close(data)

\* JSON.stringify(data, null, 2)
stringifyPretty(data) ==
  IF data.items = <<>> THEN Open(data) \o Close(data)
  ELSE Open(data) \o <<"\n">>
         \o join(Entries(data, 1, [indent |-> <<" ", " ">>, gap |-> <<" ">>]),
                 <<",", "\n">>)
         \o <<"\n">> \o Close(data)

\* The chunk chunkJSON pushes for the items i .. i + itemsPerChunk - 1.
JsonChunk(data, i, itemsPerChunk, index) ==
  LET chunkContent ==
        stringifyPretty([data EXCEPT
                           !.items = Slice(data.items, i, itemsPerChunk)])
  IN [content |-> chunkContent,
      metadata |->
        [chunk_index |-> index,
         file_type |-> "json",
         tokens |-> estimateTokens(chunkContent)]]

RECURSIVE JsonLoop(_, _, _, _)
\* for (let i = 0; i < data.length; i += itemsPerChunk), from i with chunks
JsonLoop(chunks, data, i, itemsPerChunk) ==
  IF i < Len(data.items)
  THEN JsonLoop(Append(chunks, JsonChunk(data, i, itemsPerChunk, Len(chunks))),
                data, i + itemsPerChunk, itemsPerChunk)
  ELSE chunks

\* chunkJSON(jsonContent, fileName, config) of a document input: input.parsed
\* tells whether JSON.parse accepts input.content, input.data is its value.
chunkJSON(input, config) ==
  IF ~input.parsed THEN chunkText(input.content, config)
  ELSE IF input.data.kind = "array"
  THEN JsonLoop(<<>>, input.data, 0,
                PerChunk(config.chunkSize, Len(input.content),
                         Len(input.data.items), 1))
  ELSE chunkText(stringifyPretty(input.data), config)

\* chunkPDF(pdfContent, fileName, config)
chunkPDF(pdfContent, config) == chunkText(pdfContent, config)

\* toLowerCase of the file types the inputs carry.
toLowerCase(fileType) ==
  IF fileType = "CSV" THEN "csv"
  ELSE IF fileType = "TXT" THEN "txt"
  ELSE fileType

\* ChunkingService.chunkContent(content, fileType, fileName, config)
chunkContent(input, config) ==
  LET type == toLowerCase(input.fileType)
  IN IF type = "csv" THEN chunkCSV(input.content, config)
     ELSE IF type = "json" THEN chunkJSON(input, config)
     ELSE IF type = "pdf" THEN chunkPDF(input.content, config)
     ELSE IF type = "txt" THEN chunkText(input.content, config)
     ELSE chunkText(input.content, config)

\* The paragraphs the free texts are made of: of one character, with a
\* sentence end, longer than the small chunk size, with a blank in it, blank,
\* and of two lines.
ParagraphPool ==
  {<<"a">>, <<"a", ".", " ", "b">>,
   <<"a", "b", "c", "d", "e", "f", "g", "h">>, <<"b", " ", "a">>, <<" ">>,
   <<"b", "\n", "a">>}

\* The lines between two paragraphs.
ParagraphBreaks == {<<"\n", "\n">>, <<"\n", " ", "\n">>}

\* The lists of 1..n members of S.
SeqsUpTo(S, n) == UNION {[1..k -> S] : k \in 1..n}

\* Free texts of up to MaxParagraphs paragraphs.
Texts ==
  {join(ps, sep) : ps \in SeqsUpTo(ParagraphPool, MaxParagraphs),
                   sep \in ParagraphBreaks}

\* Documents chunked as free text: text files and .json files JSON.parse
\* rejects, and with one paragraph extracted PDF text and a type the switch
\* does not know.
TextInputs ==
  {[fileType |-> t, content |-> text, parsed |-> FALSE, data |-> NoData] :
     t \in {"txt", "json"}, text \in Texts} \cup
  {[fileType |-> t, content |-> text, parsed |-> FALSE, data |-> NoData] :
     t \in {"TXT", "pdf", "md"}, text \in ParagraphPool}

Digits == <<"1", "2", "3", "4", "5", "6", "7", "8", "9">>

\* The k-th data row of a table of one column or of two.
CsvRow(k, columns) ==
  IF columns = 1 THEN <<Digits[k]>>
  ELSE <<Digits[k], " ", "|", " ", Digits[k]>>

\* convertDataToText of a table of n rows: headers + '\n' + rows, the
\* columns of a line joined by ' | ', the rows by '\n'; '' without rows.
TableText(n, columns) ==
  IF n = 0 THEN <<>>
  ELSE (IF columns = 1 THEN <<"h">> ELSE <<"h", " ", "|", " ", "k">>)
         \o <<"\n">>
         \o join([k \in 1..n |-> CsvRow(k, columns)], <<"\n">>)

CsvInputs ==
  {[fileType |-> t, content |-> TableText(n, columns), parsed |-> FALSE,
    data |-> NoData] :
     t \in {"csv", "CSV"}, n \in 0..MaxCsvRows, columns \in {1, 2}}

\* JSON values of up to MaxItems members.
JsonData ==
  {[kind |-> kind, items |-> [k \in 1..n |-> <<Digits[k]>>],
    keys |-> [k \in 1..n |-> <<"k", Digits[k]>>]] :
     kind \in {"array", "object"}, n \in 0..MaxItems}

\* .json documents JSON.parse accepts, written compactly or indented.
JsonInputs ==
  UNION {{[fileType |-> "json", content |-> stringify(d), parsed |-> TRUE,
           data |-> d],
          [fileType |-> "json", content |-> stringifyPretty(d),
           parsed |-> TRUE, data |-> d]} : d \in JsonData}

Inputs == TextInputs \cup CsvInputs \cup JsonInputs

\* The ChunkingConfig values a caller passes: small sizes, and the default.
ChunkingConfigs ==
  [chunkSize : {3, 12}, chunkOverlap : {0, 2, 12}, minChunkSize : {1, 5}]
    \cup {DEFAULT_CHUNKING_CONFIG}

\* A call of ChunkingService.chunkContent (previewChunking, indexDataset's
\* first statement) on one of the documents with one of the configs:
\* synchronous, over at once with the chunk list.
ChunkContent(r) ==
  /\ run[r].pc = "idle"
  /\ \E input \in Inputs, config \in ChunkingConfigs :
       run' = [run EXCEPT ![r] =
         [Call("chunkContent") EXCEPT
            !.input = input, !.chunking = config,
            !.chunks = chunkContent(input, config),
            !.pc = "done", !.result = Resolved(NULL)]]
  /\ Others

\* ------------------------------------------------------------ specification
\* The embedding client alone, one caller: the calls of run 1 follow one
\* another, the key may be set at any moment.
NextEmbed ==
  \/ \E c \in Contents : GenerateEmbeddings(1, c)
  \/ \E n \in VecLens : EmbedContentOk(1, n)
  \/ \E kind \in FailKinds : EmbedContentFail(1, kind)
  \/ \E q \in Queries : GenerateSingleEmbedding(1, q)
  \/ \E n \in VecLens : QueryEmbedOk(1, n)
  \/ \E kind \in FailKinds : QueryEmbedFail(1, kind)
  \/ \E k \in {"", TestKey} : SetGeminiApiKey(k)
  \/ Return(1)

SpecEmbed == Init /\ [][NextEmbed]_vars

\* The retrieval orchestrator over the embedding client and the store, one
\* caller.
Next ==
  \/ \E g \in Gems, d \in Datasets, c \in Contents : IndexDataset(1, g, d, c)
  \/ \E n \in VecLens : EmbedContentOk(1, n)
  \/ \E kind \in FailKinds : EmbedContentFail(1, kind)
  \/ InsertOk(1)
  \/ InsertError(1)
  \/ \E g \in Gems, q \in Queries : SearchSimilar(1, g, q)
  \/ \E g \in Gems, q \in Queries : SearchForAI(1, g, q)
  \/ \E n \in VecLens : QueryEmbedOk(1, n)
  \/ \E kind \in FailKinds : QueryEmbedFail(1, kind)
  \/ RpcOk(1)
  \/ RpcError(1)
  \/ \E k \in {"", TestKey} : SetGeminiApiKey(k)
  \/ Return(1)

Spec == Init /\ [][Next]_vars

\* One collection's documents under indexing, reindexing and removal, with
\* hasEmbeddings, one caller.
NextStore ==
  \/ \E g \in Gems, d \in Documents, c \in Contents : IndexDataset(1, g, d, c)
  \/ \E g \in Gems, d \in Documents, c \in Contents :
        ReindexDataset(1, g, d, c)
  \/ \E d \in Documents : RemoveDatasetEmbeddings(1, d)
  \/ DeleteOk(1)
  \/ DeleteError(1)
  \/ EmbedContentOk(1, dimensions)
  \/ EmbedContentFail(1, "http")
  \/ InsertOk(1)
  \/ InsertError(1)
  \/ \E g \in Gems : HasEmbeddings(1, g)
  \/ \E answer \in CountAnswers : CountAnswer(1, answer)
  \/ \E k \in {"", TestKey} : SetGeminiApiKey(k)
  \/ Return(1)

SpecStore == Init /\ [][NextStore]_vars

\* Searches with a caller's config over one collection under indexing, one
\* caller.
NextSearch ==
  \/ \E g \in Gems, d \in Datasets, c \in Contents : IndexDataset(1, g, d, c)
  \/ EmbedContentOk(1, dimensions)
  \/ EmbedContentFail(1, "http")
  \/ InsertOk(1)
  \/ InsertError(1)
  \/ \E g \in Gems, q \in Queries, config \in Configs :
        SearchSimilarWith(1, g, q, config)
  \/ \E g \in Gems, q \in Queries, config \in Configs :
        SearchForAIWith(1, g, q, config)
  \/ QueryEmbedOk(1, dimensions)
  \/ QueryEmbedFail(1, "http")
  \/ RpcOk(1)
  \/ RpcError(1)
  \/ Return(1)

SpecSearch == Init /\ [][NextSearch]_vars

\* Two collections whose documents are indexed, reindexed and removed, and
\* searched, one caller.
NextIsolation ==
  \/ \E g \in Collections, d \in Documents, c \in Contents :
        IndexDataset(1, g, d, c)
  \/ \E g \in Collections, d \in Documents, c \in Contents :
        ReindexDataset(1, g, d, c)
  \/ \E d \in Documents : RemoveDatasetEmbeddings(1, d)
  \/ \E g \in Collections : RemoveGemEmbeddings(1, g)
  \/ DeleteOk(1)
  \/ DeleteError(1)
  \/ EmbedContentOk(1, dimensions)
  \/ InsertOk(1)
  \/ \E g \in Collections, q \in Queries : SearchSimilar(1, g, q)
  \/ QueryEmbedOk(1, dimensions)
  \/ RpcOk(1)
  \/ Return(1)

SpecIsolation == Init /\ [][NextIsolation]_vars

\* The chat hook over a collection under indexing, one caller.
NextAI ==
  \/ \E g \in Gems, d \in Datasets, c \in Contents : IndexDataset(1, g, d, c)
  \/ EmbedContentOk(1, dimensions)
  \/ EmbedContentFail(1, "http")
  \/ InsertOk(1)
  \/ InsertError(1)
  \/ Return(1)
  \/ \E k \in {"", TestKey} : SetGeminiApiKey(k)
  \/ \E g \in Gems, q \in Queries, useRAG \in BOOLEAN :
        GenerateResponse(1, g, q, useRAG)
  \/ \E answer \in CountAnswers : CountAnswer(1, answer)
  \/ AfterHasEmbeddings(1)
  \/ QueryEmbedOk(1, dimensions)
  \/ \E kind \in FailKinds : QueryEmbedFail(1, kind)
  \/ RpcOk(1)
  \/ RpcError(1)
  \/ \E callback \in Callbacks : AfterSearchForAI(1, callback)
  \/ ChatOk(1)
  \/ ChatFail(1)
  \/ ReturnAI(1)

SpecAI == Init /\ [][NextAI]_vars

\* Background indexing of the documents of one collection, one caller.
NextBackground ==
  \/ \E g \in Gems, d \in Datasets, c \in Contents,
          callback \in ProgressCallbacks :
        IndexDatasetInBackground(1, g, d, c, callback)
  \/ EmbedContentOk(1, dimensions)
  \/ EmbedContentFail(1, "http")
  \/ InsertOk(1)
  \/ InsertError(1)
  \/ AfterIndexDataset(1)
  \/ ReturnBackground(1)

SpecBackground == Init /\ [][NextBackground]_vars

\* The document each of two concurrent callers works on.
DocumentOf == [r \in Runs |-> IF r = 1 THEN "ds1" ELSE "ds2"]

\* The contents two concurrent callers index: one insert batch or two.
ConcurrentContents == {1, InsertBatchSize + 1}

\* Two callers at once, each indexing and reindexing a document of its own
\* in one collection.
NextConcurrent ==
  \/ \E r \in Runs, g \in Gems, c \in ConcurrentContents :
        IndexDataset(r, g, DocumentOf[r], c)
  \/ \E r \in Runs, g \in Gems, c \in ConcurrentContents :
        ReindexDataset(r, g, DocumentOf[r], c)
  \/ \E r \in Runs : DeleteOk(r)
  \/ \E r \in Runs : EmbedContentOk(r, dimensions)
  \/ \E r \in Runs : InsertOk(r)
  \/ \E r \in Runs : InsertError(r)
  \/ \E r \in Runs : Return(r)

SpecConcurrent == Init /\ [][NextConcurrent]_vars

\* Two callers at once, each reindexing the same document once.
NextRace ==
  \/ \E r \in Runs, g \in Gems, d \in Datasets, c \in ConcurrentContents :
        ReindexDataset(r, g, d, c)
  \/ \E r \in Runs : DeleteOk(r)
  \/ \E r \in Runs : EmbedContentOk(r, dimensions)
  \/ \E r \in Runs : EmbedContentFail(r, "http")
  \/ \E r \in Runs : InsertOk(r)
  \/ \E r \in Runs : InsertError(r)

SpecRace == Init /\ [][NextRace]_vars

\* The contents of the files uploaded: nothing or one chunk.
UploadContents == {0, 1}

\* The progress callbacks of the dataset operations: none, one that returns,
\* ones that throw on the last status or on both.
DatasetCallbacks ==
  {NoCallback, [present |-> TRUE, throwsOn |-> {}],
   [present |-> TRUE, throwsOn |-> {"completed"}],
   [present |-> TRUE, throwsOn |-> {"completed", "error"}]}

\* Uploads with and without automatic indexing: run 1 is the caller of
\* uploadFile, run 2 the background indexing an upload starts.
NextUpload ==
  \/ \E g \in Gems, c \in UploadContents, valid \in BOOLEAN,
          autoIndex \in BOOLEAN, callback \in DatasetCallbacks :
        UploadFile(1, g, c, valid, autoIndex, callback)
  \/ ParseFileOk(1)
  \/ ParseFileFail(1)
  \/ StorageUploadOk(1)
  \/ StorageUploadError(1)
  \/ GetUserOk(1)
  \/ GetUserNone(1)
  \/ \E id \in Documents : InsertDatasetOk(1, id, 2)
  \/ InsertDatasetError(1)
  \/ \E removed \in BOOLEAN : StorageRemoveDone(1, removed)
  \/ ReturnUpload(1)
  \/ EmbedContentOk(2, dimensions)
  \/ EmbedContentFail(2, "http")
  \/ InsertOk(2)
  \/ InsertError(2)
  \/ AfterIndexDataset(2)
  \/ ReturnBackground(2)

SpecUpload == Init /\ [][NextUpload]_vars

\* Manual indexing of uploaded datasets: files are uploaded without automatic
\* indexing and DatasetService.indexDataset is called on them, all in run 1.
NextDataset ==
  \/ \E g \in Gems, c \in ConcurrentContents \cup {0}, valid \in BOOLEAN :
        UploadFile(1, g, c, valid, FALSE, NoCallback)
  \/ ParseFileOk(1)
  \/ ParseFileFail(1)
  \/ StorageUploadOk(1)
  \/ StorageUploadError(1)
  \/ GetUserOk(1)
  \/ GetUserNone(1)
  \/ \E id \in Documents : InsertDatasetOk(1, id, 2)
  \/ InsertDatasetError(1)
  \/ \E removed \in BOOLEAN : StorageRemoveDone(1, removed)
  \/ ReturnUpload(1)
  \/ \E d \in Documents, callback \in DatasetCallbacks :
        DatasetService_indexDataset(1, d, callback)
  \/ GetDatasetRow(1)
  \/ GetDatasetNone(1)
  \/ GetDatasetError(1)
  \/ EmbedContentOk(1, dimensions)
  \/ EmbedContentFail(1, "http")
  \/ InsertOk(1)
  \/ InsertError(1)
  \/ AfterIndexDataset(1)
  \/ AfterIndexDatasetInBackground(1)
  \/ ReturnDataset(1)

SpecDataset == Init /\ [][NextDataset]_vars

\* The chunker alone: it reads neither the key nor the store, so the calls
\* start from one configuration.
InitChunk == Init /\ geminiApiKey = TestKey /\ localStorage = NULL

NextChunk ==
  \/ ChunkContent(1)
  \/ Return(1)

SpecChunk == InitChunk /\ [][NextChunk]_vars

\* ------------------------------------------------------------------- claims
\* A generateEmbeddings call of run r has returned { embeddings, stats }.
GenerateReturned(r) ==
  /\ run[r].op = "generateEmbeddings"
  /\ run[r].pc = "done"
  /\ run[r].result.status = "resolved"

\* Positions (from 0) of the chunks whose provider request failed in run r.
FailedPositions(r) ==
  {run[r].outcomes[k].pos :
     k \in {j \in 1..Len(run[r].outcomes) : run[r].outcomes[j].kind # "ok"}}

\* C1: whatever requests fail, generateEmbeddings does not throw once the key
\* check has passed, its embeddings list has one entry per chunk, and the
\* length check of indexDataset never fires.
C1_ChunkAlignment ==
  \A r \in Runs :
    /\ run[r].pc = "fetch" => Len(run[r].embeddings) = run[r].i
    /\ (run[r].op = "indexDataset" /\ run[r].pc \in {"insert", "done"}
          /\ run[r].result.status # "rejected")
         => /\ Len(run[r].embeddings) = Len(run[r].chunks)
            /\ Len(run[r].embeddingRecords) = Len(run[r].chunks)
    /\ GenerateReturned(r)
         => Len(run[r].result.value.embeddings) = Len(run[r].chunks)
    /\ (run[r].op \in {"indexDataset", "generateEmbeddings"}
          /\ run[r].result.status = "rejected")
         => /\ run[r].result.error \in {"config", "no_chunks"}
            /\ run[r].fetchCalls = 0

\* An indexDataset run reached the insert loop after a batch with a failed
\* request and with answered requests too.
C1_Witness ==
  /\ run[1].op = "indexDataset"
  /\ run[1].pc = "insert"
  /\ Len(run[1].chunks) >= 2
  /\ run[1].errors # <<>>
  /\ \E k \in 1..Len(run[1].outcomes) : run[1].outcomes[k].kind = "ok"

\* C2: a failed request costs only its own position: every chunk whose own
\* request was answered holds the vector the provider returned for it.
C2_OnlyFailedPositionIsPlaceholder ==
  \A r \in Runs :
    GenerateReturned(r) =>
      \A k \in 1..Len(run[r].outcomes) :
        LET o == run[r].outcomes[k]
        IN o.kind = "ok" =>
             run[r].result.value.embeddings[o.pos + 1]
               = ProviderValues(run[r].chunks[o.pos + 1].content, o.len)

\* C3: with exactly one failed request, the failed position holds the zero
\* vector of provider.dimensions entries and stats.errors is one string that
\* names the 1-based ordinal of the batch of the failed chunk.
C3_SingleFailure ==
  \A r \in Runs :
    (GenerateReturned(r) /\ Cardinality(FailedPositions(r)) = 1) =>
      LET k == CHOOSE p \in FailedPositions(r) : TRUE
          out == run[r].result.value
      IN /\ out.embeddings[k + 1] = ZeroVector(dimensions)
         /\ out.embeddings[k + 1].len = dimensions
         /\ Len(out.stats.errors) = 1
         /\ out.stats.errors[1][1] = "Erreur batch"
         /\ out.stats.errors[1][2] = (k \div EmbedBatchSize) + 1

\* A returned run whose only failed request is not the first request.
C3_Witness ==
  /\ GenerateReturned(1)
  /\ Cardinality(FailedPositions(1)) = 1
  /\ \E p \in FailedPositions(1) : p >= 1
  /\ Len(run[1].outcomes) >= 2

\* C4: every vector generateEmbeddings and generateSingleEmbedding return has
\* provider.dimensions entries, whatever size of values the provider sent.
C4_DimensionInvariant ==
  \A r \in Runs :
    /\ GenerateReturned(r) =>
         \A k \in 1..Len(run[r].result.value.embeddings) :
           run[r].result.value.embeddings[k].len = dimensions
    /\ (run[r].op = "generateSingleEmbedding" /\ run[r].pc = "done"
          /\ run[r].result.status = "resolved")
         => run[r].result.value.len = dimensions

\* C5: stats.total_tokens is the token sum over all input chunks and
\* stats.cost_estimate the cost of that sum, as estimateCost computes them,
\* with or without failed requests.
C5_TokensAndCostCoverAllChunks ==
  \A r \in Runs :
    GenerateReturned(r) =>
      /\ run[r].result.value.stats.total_tokens
           = estimateCost(run[r].chunks).totalTokens
      /\ run[r].result.value.stats.cost_estimate
           = estimateCost(run[r].chunks).costEstimate

\* Run r makes a call of one of the operations ops in this step.
Calls(r, ops) == run[r].pc = "idle" /\ run'[r].op \in ops

\* What C6 says of every state.
C6_State ==
  /\ isConfigured(geminiApiKey) <=> geminiApiKey \notin {NULL, ""}
  /\ isProviderConfigured(geminiApiKey) <=> isConfigured(geminiApiKey)
  /\ \A r \in Runs :
       (run[r].op \in {"generateEmbeddings", "generateSingleEmbedding"}
          /\ run[r].result = Rejected("config"))
         => run[r].fetchCalls = 0 /\ run[r].pc = "done"

\* What C6 says of every step.
C6_Step ==
  /\ \A r \in Runs :
       Calls(r, {"generateEmbeddings", "generateSingleEmbedding"}) =>
         IF geminiApiKey \in {NULL, ""}
         THEN /\ run'[r].pc = "done"
              /\ run'[r].result = Rejected("config")
              /\ run'[r].fetchCalls = 0
         ELSE run'[r].result.status # "rejected"
  /\ \A k \in {"", TestKey} :
       SetGeminiApiKey(k) => (isConfigured(geminiApiKey') <=> k # "")
  /\ geminiApiKey' # geminiApiKey => \E k \in {"", TestKey} : SetGeminiApiKey(k)

\* C6: without a key (null or empty) generateEmbeddings and
\* generateSingleEmbedding reject with the configuration error and send no
\* request; isConfigured and isProviderConfigured hold exactly when the key
\* last loaded or set is non-empty.
C6_FailFastWithoutKey == []C6_State /\ [][C6_Step]_vars

\* A single-embedding call was rejected for its configuration after the key
\* had been set to the empty string.
C6_Witness ==
  /\ run[1].op = "generateSingleEmbedding"
  /\ run[1].result = Rejected("config")
  /\ geminiApiKey = ""
  /\ localStorage = ""

SearchOps == {"searchSimilar", "searchForAI"}

\* What C7 says of every state.
C7_State ==
  \A r \in Runs :
    run[r].op \in SearchOps =>
      /\ run[r].rpcCalls > 0 =>
           /\ FailedPositions(r) = {}
           /\ Len(run[r].outcomes) = 1
           /\ run[r].queryEmbedding
                = ProviderValues(run[r].query, run[r].outcomes[1].len)
      /\ FailedPositions(r) # {} =>
           /\ run[r].pc = "done"
           /\ run[r].result.status = "rejected"
           /\ run[r].rpcCalls = 0
      /\ run[r].result = Rejected("config") =>
           run[r].fetchCalls = 0 /\ run[r].rpcCalls = 0

\* What C7 says of every step.
C7_Step ==
  \A r \in Runs :
    (Calls(r, SearchOps) /\ geminiApiKey \in {NULL, ""}) =>
      /\ run'[r].pc = "done"
      /\ run'[r].result = Rejected("config")

\* C7: when the query embedding fails (failed request or missing key),
\* searchSimilar and searchForAI reject, no placeholder stands in for the
\* query vector and match_embeddings is not called.
C7_QueryEmbeddingFailureIsFatal == []C7_State /\ [][C7_Step]_vars

\* searchForAI was rejected by a failed query embedding over a table that
\* holds rows.
C7_Witness ==
  /\ run[1].op = "searchForAI"
  /\ run[1].pc = "done"
  /\ run[1].result.status = "rejected"
  /\ FailedPositions(1) # {}
  /\ run[1].rpcCalls = 0
  /\ store # <<>>

\* C8: with zero chunks indexDataset rejects before any provider request and
\* any insert, and the table is as it was.
C8_ZeroChunksRejected ==
  \A r \in Runs :
    (run[r].op = "indexDataset" /\ run[r].chunks = <<>>) =>
      /\ run[r].pc = "done"
      /\ run[r].result = Rejected("no_chunks")
      /\ run[r].fetchCalls = 0
      /\ run[r].insertCalls = 0
      /\ store = run[r].storeAtCall

\* indexDataset was called with a key and a non-empty table on a content
\* that yields no chunk.
C8_Witness ==
  /\ run[1].op = "indexDataset"
  /\ run[1].chunks = <<>>
  /\ run[1].pc = "done"
  /\ isConfigured(geminiApiKey)
  /\ store # <<>>

RECURSIVE InsertedSize(_)
\* Records in the answered insert batches that succeeded.
InsertedSize(log) ==
  IF log = <<>> THEN 0
  ELSE (IF log[1].ok THEN log[1].size ELSE 0) + InsertedSize(Tail(log))

\* Number of entries of the sequence s that satisfy Test.
CountIf(s, Test(_)) == Cardinality({k \in 1..Len(s) : Test(s[k])})

IsInsertError(e) == e[1] = "Erreur insertion batch"
IsFailedInsert(x) == ~x.ok

\* C9: inserts go in batches of at most the batch size, a failed batch does
\* not abort the run, each failed batch leaves one error string, and
\* total_embeddings is the number of records of the batches that succeeded,
\* which is the number of rows the run added to the table.
C9_InsertFailuresAreSkipped ==
  \A r \in Runs :
    run[r].op = "indexDataset" =>
      /\ run[r].pc = "insert" =>
           /\ Len(InsertBatch(run[r])) >= 1
           /\ Len(InsertBatch(run[r])) <= InsertBatchSize
           /\ Len(run[r].inserts) = run[r].i \div InsertBatchSize
      /\ run[r].insertCalls > 0 => run[r].result.status # "rejected"
      /\ (run[r].pc = "done" /\ run[r].result.status = "resolved") =>
           /\ Len(run[r].inserts) * InsertBatchSize >= Len(run[r].chunks)
           /\ Len(run[r].inserts) = run[r].insertCalls
           /\ CountIf(run[r].result.value.errors, IsInsertError)
                = CountIf(run[r].inserts, IsFailedInsert)
           /\ run[r].result.value.total_embeddings = InsertedSize(run[r].inserts)
           /\ Len(store)
                = Len(run[r].storeAtCall) + run[r].result.value.total_embeddings
           /\ SubSeq(store, 1, Len(run[r].storeAtCall)) = run[r].storeAtCall

\* An indexDataset run returned after its first insert batch failed and a
\* later one succeeded.
C9_Witness ==
  /\ run[1].op = "indexDataset"
  /\ run[1].pc = "done"
  /\ run[1].result.status = "resolved"
  /\ Len(run[1].inserts) >= 2
  /\ ~run[1].inserts[1].ok
  /\ run[1].result.value.total_embeddings > 0

\* C10: every row of the table has a vector of provider.dimensions entries.
C10_StoredVectorsHaveProviderDimensions ==
  \A k \in 1..Len(store) : store[k].embedding.len = dimensions

RECURSIVE AcceptedRecords(_, _, _)
\* The records of the batches the store accepted, batch after batch: the
\* j-th insert of a call carries the records from position
\* InsertBatchSize * (j - 1) on.
AcceptedRecords(records, inserts, j) ==
  IF j > Len(inserts) THEN <<>>
  ELSE (IF inserts[j].ok
        THEN Slice(records, InsertBatchSize * (j - 1), InsertBatchSize)
        ELSE <<>>)
       \o AcceptedRecords(records, inserts, j + 1)

\* The rows the table has received since run r made its call.
RowsSinceCall(r) ==
  SubSeq(store, Len(run[r].storeAtCall) + 1, Len(store))

\* C11: within one indexDataset call the i-th record carries the content and
\* metadata of chunks[i] and the vector produced for that same chunk (or its
\* placeholder), and the records reach the store in increasing i, batch j
\* holding the positions from InsertBatchSize * j on.
C11_RecordsFollowChunkOrder ==
  \A r \in Runs :
    (run[r].op = "indexDataset" /\ run[r].insertCalls > 0) =>
      /\ Len(run[r].embeddingRecords) = Len(run[r].chunks)
      /\ \A k \in 1..Len(run[r].chunks) :
            /\ run[r].embeddingRecords[k].content = run[r].chunks[k].content
            /\ run[r].embeddingRecords[k].metadata = run[r].chunks[k].metadata
            /\ run[r].embeddingRecords[k].metadata.chunk_index = k - 1
            /\ run[r].embeddingRecords[k].embedding = run[r].embeddings[k]
            /\ run[r].embeddingRecords[k].embedding \in
                  {ZeroVector(dimensions)} \cup
                  {ProviderValues(run[r].chunks[k].content, n) : n \in VecLens}
      /\ LET rows == RowsSinceCall(r)
             sent == AcceptedRecords(run[r].embeddingRecords, run[r].inserts, 1)
         IN /\ Len(rows) = Len(sent)
            /\ \A k \in 1..Len(rows) :
                  /\ rows[k].content = sent[k].content
                  /\ rows[k].metadata = sent[k].metadata
                  /\ rows[k].embedding = sent[k].embedding
                  /\ rows[k].gem_id = run[r].gemId
                  /\ rows[k].dataset_id = run[r].datasetId
            /\ \A k \in 1..(Len(rows) - 1) :
                  /\ rows[k].id < rows[k + 1].id
                  /\ rows[k].metadata.chunk_index
                       < rows[k + 1].metadata.chunk_index

\* A call whose chunk list crosses an embedding batch and an insert batch has
\* stored every record.
C11_Witness ==
  /\ run[1].op = "indexDataset"
  /\ run[1].pc = "done"
  /\ run[1].result.status = "resolved"
  /\ Len(run[1].chunks) > EmbedBatchSize
  /\ Len(run[1].chunks) > InsertBatchSize
  /\ run[1].errors = <<>>
  /\ Len(RowsSinceCall(1)) = Len(run[1].chunks)

\* The rows of document datasetId in a table, in table order.
RowsOf(rows, datasetId) ==
  LET OfDocument(row) == row.dataset_id = datasetId
  IN SelectSeq(rows, OfDocument)

\* The rows of the other documents in a table, in table order.
RowsNotOf(rows, datasetId) ==
  LET OfOther(row) == row.dataset_id # datasetId
  IN SelectSeq(rows, OfOther)

\* Every insert the store has answered in run r was accepted.
NoInsertFailure(r) ==
  \A j \in 1..Len(run[r].inserts) : run[r].inserts[j].ok

\* C12: reindexDataset deletes all embeddings of the document before any new
\* record is inserted: while the delete is in flight nothing has been
\* inserted, and once it has answered the document's rows are exactly the
\* records of the new run accepted so far, none from before the call; run
\* alone with no insert failure the document ends with one row per new chunk.
C12_ReindexReplacesDocument ==
  \A r \in Runs :
    run[r].op = "reindexDataset" =>
      /\ run[r].pc = "delete" =>
           /\ run[r].insertCalls = 0
           /\ store = run[r].storeAtCall
      /\ (run[r].fetchCalls > 0 \/ run[r].insertCalls > 0) =>
           /\ Len(run[r].deletes) = 1
           /\ run[r].deletes[1].ok
      /\ (Len(run[r].deletes) = 1 /\ run[r].deletes[1].ok) =>
           LET rows == RowsOf(store, run[r].datasetId)
               sent == AcceptedRecords(run[r].embeddingRecords,
                                       run[r].inserts, 1)
           IN /\ Len(rows) = Len(sent)
              /\ \A k \in 1..Len(rows) :
                    /\ rows[k].content = sent[k].content
                    /\ rows[k].metadata = sent[k].metadata
                    /\ rows[k].embedding = sent[k].embedding
                    /\ rows[k].gem_id = run[r].gemId
                    /\ \A j \in 1..Len(run[r].storeAtCall) :
                          rows[k].id # run[r].storeAtCall[j].id
              /\ RowsNotOf(store, run[r].datasetId)
                   = RowsNotOf(run[r].storeAtCall, run[r].datasetId)
              /\ (run[r].pc = "done" /\ run[r].result.status = "resolved"
                    /\ NoInsertFailure(r))
                   => Len(rows) = Len(run[r].chunks)

\* A reindexing of a document that had rows, next to another document's
\* rows, has ended with every insert accepted.
C12_Witness ==
  /\ run[1].op = "reindexDataset"
  /\ run[1].pc = "done"
  /\ run[1].result.status = "resolved"
  /\ NoInsertFailure(1)
  /\ Len(RowsOf(run[1].storeAtCall, run[1].datasetId)) > 0
  /\ Len(RowsNotOf(run[1].storeAtCall, run[1].datasetId)) > 0
  /\ Len(RowsOf(store, run[1].datasetId)) = Len(run[1].chunks)
  /\ Len(run[1].chunks) > 0

\* Run r is a reindexDataset whose delete was answered without error.
DeletedForReindex(r) ==
  /\ run[r].op = "reindexDataset"
  /\ Len(run[r].deletes) = 1
  /\ run[r].deletes[1].ok

\* C13: reindexDataset is not atomic: when the indexing after the delete
\* fails (zero chunks, no API key) the call rejects and the document is left
\* with zero embeddings; the same holds at every point between the delete
\* and the first insert, where a crash would leave the table as it is.
C13_FailedReindexLeavesNoEmbeddings ==
  \A r \in Runs :
    run[r].op = "reindexDataset" =>
      /\ (run[r].pc = "done" /\ run[r].result.status = "rejected"
            /\ run[r].result.error # "delete") =>
           /\ run[r].result.error \in {"no_chunks", "config"}
           /\ DeletedForReindex(r)
           /\ RowsOf(store, run[r].datasetId) = <<>>
           /\ run[r].insertCalls = 0
      /\ (run[r].pc = "fetch" \/ (run[r].pc = "insert" /\ run[r].inserts = <<>>))
           => /\ DeletedForReindex(r)
              /\ RowsOf(store, run[r].datasetId) = <<>>

\* A reindexing of a document that had rows has failed on zero chunks after
\* its delete.
C13_Witness ==
  /\ DeletedForReindex(1)
  /\ run[1].pc = "done"
  /\ run[1].result = Rejected("no_chunks")
  /\ Len(RowsOf(run[1].storeAtCall, run[1].datasetId)) > 0
  /\ RowsOf(store, run[1].datasetId) = <<>>

\* The same with the API key removed since the document was indexed.
C13_WitnessNoKey ==
  /\ DeletedForReindex(1)
  /\ run[1].pc = "done"
  /\ run[1].result = Rejected("config")
  /\ Len(RowsOf(run[1].storeAtCall, run[1].datasetId)) > 0
  /\ RowsOf(store, run[1].datasetId) = <<>>

\* C20: removeDatasetEmbeddings resolves with the number of rows the document
\* had when it was called and leaves the table without any row of the
\* document and with every other row; on a document without rows that is
\* deleted_count 0 and an unchanged table, which is what a second call in a
\* row meets.  It throws only when the store answers the delete with an
\* error, and then the table is unchanged.
C20_RemoveIsIdempotent ==
  \A r \in Runs :
    (run[r].op = "removeDatasetEmbeddings" /\ run[r].pc = "done") =>
      LET before == RowsOf(run[r].storeAtCall, run[r].datasetId)
      IN /\ run[r].result.status = "resolved" =>
              /\ run[r].result.value.deleted_count = Len(before)
              /\ RowsOf(store, run[r].datasetId) = <<>>
              /\ RowsNotOf(store, run[r].datasetId)
                   = RowsNotOf(run[r].storeAtCall, run[r].datasetId)
              /\ before = <<>> =>
                   /\ run[r].result.value.deleted_count = 0
                   /\ store = run[r].storeAtCall
         /\ run[r].result.status = "rejected" =>
              /\ run[r].deletes = <<[ok |-> FALSE, size |-> 0]>>
              /\ store = run[r].storeAtCall
         /\ (run[r].deletes # <<>> /\ run[r].deletes[1].ok)
              => run[r].result.status = "resolved"

\* A removal on a document without rows, in a table that holds another
\* document's rows, has returned 0.
C20_Witness ==
  /\ run[1].op = "removeDatasetEmbeddings"
  /\ run[1].pc = "done"
  /\ run[1].result = Resolved([deleted_count |-> 0])
  /\ run[1].storeAtCall # <<>>
  /\ store = run[1].storeAtCall

\* A removal has returned the number of rows the document had, next to
\* another document's rows.
C20_WitnessCount ==
  /\ run[1].op = "removeDatasetEmbeddings"
  /\ run[1].pc = "done"
  /\ run[1].result.status = "resolved"
  /\ run[1].result.value.deleted_count > 1
  /\ store # <<>>

\* C17: hasEmbeddings never rejects; it resolves to true exactly when the
\* store answers the count query with a count above 0 (the number of rows of
\* the collection), and to false when the count is 0 or null, when the store
\* answers { error }, and when the store call throws.
C17_HasEmbeddingsNeverRejects ==
  \A r \in Runs :
    (run[r].op = "hasEmbeddings" /\ run[r].pc = "done") =>
      /\ run[r].result.status = "resolved"
      /\ Len(run[r].counts) = 1
      /\ run[r].counts[1].count = CountOf(run[r].storeAtCall, run[r].gemId)
      /\ run[r].result.value
           = (/\ run[r].counts[1].answer = "count"
              /\ run[r].counts[1].count > 0)
      /\ run[r].counts[1].answer \in {"null", "error", "throw"}
           => run[r].result.value = FALSE
      /\ store = run[r].storeAtCall

\* The store call of hasEmbeddings threw on a collection that has rows, and
\* the call resolved to false.
C17_Witness ==
  /\ run[1].op = "hasEmbeddings"
  /\ run[1].pc = "done"
  /\ run[1].counts = <<[answer |-> "throw",
                        count |-> CountOf(store, run[1].gemId)]>>
  /\ CountOf(store, run[1].gemId) > 0
  /\ run[1].result = Resolved(FALSE)

\* hasEmbeddings resolved to true.
C17_WitnessTrue ==
  /\ run[1].op = "hasEmbeddings"
  /\ run[1].pc = "done"
  /\ run[1].result = Resolved(TRUE)

\* A searchSimilar call of run r has returned its result.
SearchReturned(r) ==
  /\ run[r].op = "searchSimilar"
  /\ run[r].pc = "done"
  /\ run[r].result.status = "resolved"

\* The cosine similarity dot / sqrt(norms2) is above threshold hundredths.
SimilarityAbove(sim, threshold) ==
  /\ sim.norms2 > 0
  /\ sim.dot > 0
  /\ sim.dot * sim.dot * 10000 > threshold * threshold * sim.norms2

\* The cosine similarity a is at least the cosine similarity b (both > 0).
SimilarityAtLeast(a, b) ==
  a.dot * a.dot * b.norms2 >= b.dot * b.dot * a.norms2

\* The cosine similarity of a stored row with the query vector of run r.
RowSimilarity(r, row) ==
  [dot |-> row.embedding.head[1] * run[r].queryEmbedding.head[1]
             + row.embedding.head[2] * run[r].queryEmbedding.head[2],
   norms2 |-> (row.embedding.head[1] * row.embedding.head[1]
                 + row.embedding.head[2] * row.embedding.head[2])
              * (run[r].queryEmbedding.head[1] * run[r].queryEmbedding.head[1]
                 + run[r].queryEmbedding.head[2] * run[r].queryEmbedding.head[2])]

\* The rows of the collection of run r that a search can return.
Candidates(r) ==
  {k \in 1..Len(run[r].storeAtCall) :
     run[r].storeAtCall[k].gem_id = run[r].gemId}

C14_Witness ==
  /\ SearchReturned(1)
  /\ run[1].result.value.matches = <<>>
  /\ Candidates(1) # {}
  /\ \A j \in Candidates(1) :
        /\ run[1].storeAtCall[j].embedding # ZeroVector(dimensions)
        /\ RowSimilarity(1, run[1].storeAtCall[j]).dot > 0

\* A search has returned maxMatches matches out of more rows above the
\* threshold.
C14_WitnessLimit ==
  /\ SearchReturned(1)
  /\ Len(run[1].result.value.matches) = run[1].config.maxMatches
  /\ Cardinality({j \in Candidates(1) :
        SimilarityAbove(RowSimilarity(1, run[1].storeAtCall[j]),
                        run[1].config.similarityThreshold)})
       > run[1].config.maxMatches

\* A search has returned matches of different similarity, the nearer first,
\* against the table order.
C14_WitnessOrder ==
  /\ SearchReturned(1)
  /\ Len(run[1].result.value.matches) > 1
  /\ ~SimilarityAtLeast(run[1].result.value.matches[2].similarity,
                        run[1].result.value.matches[1].similarity)
  /\ run[1].result.value.matches[1].id > run[1].result.value.matches[2].id

\* What C14 says holds of every search over a collection that holds no zero
\* vector.
C14_HoldsWithoutPlaceholders ==
  \A r \in Runs :
    (SearchReturned(r)
       /\ \A j \in Candidates(r) :
             run[r].storeAtCall[j].embedding.head # <<0, 0>>) =>
      LET matches == run[r].result.value.matches
          threshold == run[r].config.similarityThreshold
      IN /\ Len(matches) <= run[r].config.maxMatches
         /\ \A k \in 1..Len(matches) :
               SimilarityAbove(matches[k].similarity, threshold)
         /\ \A k \in 1..(Len(matches) - 1) :
               SimilarityAtLeast(matches[k].similarity,
                                 matches[k + 1].similarity)
         /\ (\A j \in Candidates(r) :
               ~SimilarityAbove(RowSimilarity(r, run[r].storeAtCall[j]),
                                threshold))
              => matches = <<>>

\* The row of the table that a match of run r was read from.
MatchedRows(r, match) ==
  {j \in 1..Len(run[r].storeAtCall) : run[r].storeAtCall[j].id = match.id}

\* C15: whatever indexDataset, reindexDataset, removeDatasetEmbeddings and
\* removeGemEmbeddings calls came before over two collections, every record
\* searchSimilar returns for a collection is a row stored under that
\* collection, never a row of the other one.
C15_CollectionIsolation ==
  \A r \in Runs :
    SearchReturned(r) =>
      \A k \in 1..Len(run[r].result.value.matches) :
        LET match == run[r].result.value.matches[k]
        IN /\ MatchedRows(r, match) # {}
           /\ \A j \in MatchedRows(r, match) :
                 run[r].storeAtCall[j].gem_id = run[r].gemId

\* A search has returned a row of its collection while the other collection
\* holds a row of the same document id with the identical vector, in a table
\* that rows have been removed from.
C15_Witness ==
  /\ SearchReturned(1)
  /\ \E k \in 1..Len(run[1].result.value.matches) :
       \E j \in MatchedRows(1, run[1].result.value.matches[k]) :
         \E m \in 1..Len(run[1].storeAtCall) :
            /\ run[1].storeAtCall[m].gem_id # run[1].gemId
            /\ run[1].storeAtCall[m].dataset_id
                 = run[1].storeAtCall[j].dataset_id
            /\ run[1].storeAtCall[m].embedding
                 = run[1].storeAtCall[j].embedding
  /\ \E j \in 1..Len(run[1].storeAtCall) :
        run[1].storeAtCall[j].id > Len(run[1].storeAtCall)

\* A searchForAI call of run r has returned.
SearchForAIReturned(r) ==
  /\ run[r].op = "searchForAI"
  /\ run[r].pc = "done"
  /\ run[r].result.status = "resolved"

\* C16: searchForAI returns one block '[Source N] content' per match, N from
\* 1 in the order of the matches, and a source 'Source N: ...' for each; with
\* no match the context is the empty string, there is no source and
\* total_matches is 0, and the call has not thrown.
C16_ContextFollowsMatches ==
  \A r \in Runs :
    /\ SearchForAIReturned(r) =>
         LET value == run[r].result.value
             matches == value.searchResult.matches
         IN /\ Len(value.context) = Len(matches)
            /\ Len(value.sources) = Len(matches)
            /\ value.searchResult.total_matches = Len(matches)
            /\ \A k \in 1..Len(matches) :
                  /\ value.context[k] = <<"[Source", k, matches[k].content>>
                  /\ value.sources[k] = <<"Source", k>>
                  /\ \E j \in MatchedRows(r, matches[k]) :
                        value.context[k][3] = run[r].storeAtCall[j].content
            /\ matches = <<>> =>
                  /\ value.context = <<>>
                  /\ value.sources = <<>>
                  /\ value.searchResult.total_matches = 0
    /\ (run[r].op = "searchForAI" /\ run[r].pc = "done"
          /\ run[r].rpcCalls = 1 /\ run[r].result.status = "rejected")
         => run[r].result.error = "rpc"

\* searchForAI has returned two blocks, the nearer row first against the
\* table order.
C16_Witness ==
  /\ SearchForAIReturned(1)
  /\ Len(run[1].result.value.context) > 1
  /\ run[1].result.value.searchResult.matches[1].id
       > run[1].result.value.searchResult.matches[2].id

\* searchForAI has returned the empty context on a collection that has rows.
C16_WitnessEmpty ==
  /\ SearchForAIReturned(1)
  /\ run[1].result.value.context = <<>>
  /\ run[1].result.value.searchResult.total_matches = 0
  /\ Candidates(1) # {}

\* Run r is executing useAI.generateResponse or a call it awaits.
InGenerateResponse(r) == run[r].caller = "useAI"

\* The system prompt of a chat request is gem.prompt as it is.
Unmodified(systemPrompt) == systemPrompt = <<GemPrompt>>

\* C18: in useAI.generateResponse the chat-completion call is made exactly
\* once, whatever failed in the RAG step (the count query of hasEmbeddings,
\* the query embedding, the store query, the onRAGSearch callback), and then
\* with the unmodified system prompt; the prompt is augmented only when RAG
\* is on, hasEmbeddings was true, the provider was configured and the
\* context is present.
C18_ChatCalledOnceRagFailuresSwallowed ==
  \A r \in Runs :
    InGenerateResponse(r) =>
      LET ai == run[r].ai
      IN /\ Len(ai.requests) <= 1
         /\ run[r].pc \in {"chat", "aidone"} <=> Len(ai.requests) = 1
         /\ run[r].pc \in {"chat", "aidone"} =>
              /\ ai.ragError # NULL => Unmodified(ai.requests[1])
              /\ (run[r].counts # <<>> /\ run[r].counts[1].answer # "count")
                   => Unmodified(ai.requests[1])
              /\ ~Unmodified(ai.requests[1]) <=>
                   /\ ai.useRAG
                   /\ ai.hasEmbeddings = "true"
                   /\ ai.isConfigured = "true"
                   /\ ai.ragError = NULL
                   /\ ai.context # <<>>
              /\ ~Unmodified(ai.requests[1]) =>
                   /\ ai.requests[1][1] = GemPrompt
                   /\ ai.requests[1][3] = ai.context
                   /\ ai.contextUsed = "true"

\* The chat request has been sent with the unmodified prompt after the query
\* embedding of the RAG step failed.
C18_Witness ==
  /\ InGenerateResponse(1)
  /\ run[1].pc = "chat"
  /\ run[1].ai.ragError \in FailKinds
  /\ run[1].ai.requests = <<(<<GemPrompt>>)>>

\* The same after the store query failed, and after the callback threw on a
\* search that had found context.
C18_WitnessRpc ==
  /\ InGenerateResponse(1)
  /\ run[1].pc = "chat"
  /\ run[1].ai.ragError = "rpc"
  /\ run[1].ai.requests = <<(<<GemPrompt>>)>>

C18_WitnessCallback ==
  /\ InGenerateResponse(1)
  /\ run[1].pc = "chat"
  /\ run[1].ai.ragError = "onRAGSearch"
  /\ run[1].result.status = "resolved"
  /\ run[1].result.value.context # <<>>
  /\ run[1].ai.requests = <<(<<GemPrompt>>)>>

\* The chat request has been sent with the augmented prompt.
C18_WitnessAugmented ==
  /\ InGenerateResponse(1)
  /\ run[1].pc = "chat"
  /\ ~Unmodified(run[1].ai.requests[1])

\* s is an initial part of t.
IsPrefix(s, t) == Len(s) <= Len(t) /\ s = SubSeq(t, 1, Len(s))

\* Run r is an indexDatasetInBackground call that is over.
BackgroundOver(r) ==
  /\ run[r].caller = "background"
  /\ run[r].pc = "bgdone"

\* C19: the statuses reported by an indexing run follow the order starting,
\* chunking, embedding, saving, completed: a run that ends in 'completed'
\* has reported each of the five once in that order, 'saving' after
\* 'embedding' and before 'completed'; 'error' can follow any of them and
\* ends the run.
C19_ProgressFollowsStateMachine ==
  \A r \in Runs :
    run[r].caller = "background" =>
      LET order == <<"starting", "chunking", "embedding", "saving",
                     "completed">>
          reported == run[r].progress
      IN /\ \/ IsPrefix(reported, order)
            \/ /\ reported # <<>>
               /\ reported[Len(reported)] = "error"
               /\ IsPrefix(SubSeq(reported, 1, Len(reported) - 1), order)
         /\ (BackgroundOver(r) /\ reported[Len(reported)] = "completed")
              => reported = order
         /\ BackgroundOver(r)
              => reported[Len(reported)] \in {"completed", "error"}

\* What the runs do report to a callback that returns from every call:
\* 'saving' never, the four other statuses in order, 'error' after
\* 'starting' or after 'embedding'.
C19_ReportedOrder ==
  \A r \in Runs :
    (run[r].caller = "background" /\ run[r].callback.throwsOn = {}) =>
      /\ run[r].progress \in
           {<<"starting", "error">>,
            <<"starting", "chunking", "embedding">>,
            <<"starting", "chunking", "embedding", "completed">>,
            <<"starting", "chunking", "embedding", "error">>}
      /\ BackgroundOver(r) <=> Len(run[r].progress) \in {2, 4}

\* A background indexing has ended in 'completed' with every record stored.
C19_WitnessCompleted ==
  /\ BackgroundOver(1)
  /\ run[1].progress[Len(run[1].progress)] = "completed"
  /\ Len(RowsSinceCall(1)) = Len(run[1].chunks)

\* A chunkContent call of run r has returned run[r].chunks.
ChunkerReturned(r) == run[r].op = "chunkContent" /\ run[r].pc = "done"

\* The strategy chunkContent chose for the document of run r.
Strategy(r) ==
  IF toLowerCase(run[r].input.fileType) = "csv" THEN "tabular"
  ELSE IF toLowerCase(run[r].input.fileType) = "json" /\ run[r].input.parsed
          /\ run[r].input.data.kind = "array"
  THEN "records"
  ELSE "text"

\* C21: every chunk chunkContent returns has content.length >=
\* config.minChunkSize, whatever the strategy: the last row group of a
\* table, small groups of records and free-text chunks that shrink when
\* trimmed included.
C21_ChunksMeetMinChunkSize ==
  \A r \in Runs :
    ChunkerReturned(r) =>
      \A k \in 1..Len(run[r].chunks) :
        Len(run[r].chunks[k].content) >= run[r].chunking.minChunkSize

\* The same floor for the free-text strategy alone.
C21_TextChunksMeetMinChunkSize ==
  \A r \in Runs :
    (ChunkerReturned(r) /\ Strategy(r) = "text") =>
      \A k \in 1..Len(run[r].chunks) :
        Len(run[r].chunks[k].content) >= run[r].chunking.minChunkSize

\* C22: the chunk_index of every returned chunk is its position in the
\* list, from 0 and without gap or repeat, also when candidates were
\* dropped and when a .json document fell back to the free-text strategy.
C22_ChunkIndexIsPosition ==
  \A r \in Runs :
    ChunkerReturned(r) =>
      \A k \in 1..Len(run[r].chunks) :
        run[r].chunks[k].metadata.chunk_index = k - 1

\* C23: metadata.tokens of every returned chunk is ceil(content.length / 4)
\* of the content the chunk carries.
C23_TokensOfEmittedContent ==
  \A r \in Runs :
    ChunkerReturned(r) =>
      \A k \in 1..Len(run[r].chunks) :
        run[r].chunks[k].metadata.tokens * 4 \in
          Len(run[r].chunks[k].content)..(Len(run[r].chunks[k].content) + 3)

\* What holds of tokens: the tabular and the record strategies count the
\* emitted content, the free-text strategy counts at least that.
C23_TokensOfRunningChunk ==
  \A r \in Runs :
    ChunkerReturned(r) =>
      \A k \in 1..Len(run[r].chunks) :
        LET chunk == run[r].chunks[k]
        IN IF Strategy(r) = "text"
           THEN chunk.metadata.tokens >= estimateTokens(chunk.content)
           ELSE chunk.metadata.tokens = estimateTokens(chunk.content)

\* The text the free-text strategy cuts for the document of run r.
TextOf(r) ==
  IF run[r].input.parsed THEN stringifyPretty(run[r].input.data)
  ELSE run[r].input.content

\* The locals of chunkText before the k-th paragraph of run r's text.
LocalsBefore(r, k) ==
  TextLoop(TextStart, SubSeq(splitParagraphs(TextOf(r)), 1, k - 1),
           TextOf(r), run[r].chunking)

\* The k-th paragraph of run r's text does not fit the running chunk.
Exceeds(r, k) ==
  /\ LocalsBefore(r, k).currentChunk # <<>>
  /\ Len(LocalsBefore(r, k).currentChunk)
       + Len(trim(splitParagraphs(TextOf(r))[k])) > run[r].chunking.chunkSize

\* The k-th paragraph of run r's text met a running chunk below the floor
\* that it did not fit: a candidate that is not emitted.
DroppedAt(r, k) ==
  /\ trim(splitParagraphs(TextOf(r))[k]) # <<>>
  /\ Exceeds(r, k)
  /\ Len(LocalsBefore(r, k).currentChunk) < run[r].chunking.minChunkSize

C22_Witness ==
  \E r \in Runs :
    /\ ChunkerReturned(r)
    /\ Strategy(r) = "text"
    /\ Len(run[r].chunks) >= 2
    /\ \E k \in 1..Len(splitParagraphs(TextOf(r))) : DroppedAt(r, k)

\* A .json document that JSON.parse rejects, cut as free text.
C22_WitnessFallback ==
  \E r \in Runs :
    /\ ChunkerReturned(r)
    /\ run[r].input.fileType = "json"
    /\ ~run[r].input.parsed
    /\ Len(run[r].chunks) >= 2

\* A list of records cut into several groups.
C22_WitnessRecords ==
  \E r \in Runs :
    /\ ChunkerReturned(r)
    /\ Strategy(r) = "records"
    /\ Len(run[r].chunks) >= 2

\* s holds t as a run of consecutive characters.
Holds(s, t) ==
  \E i \in 0..(Len(s) - Len(t)) : SubSeq(s, i + 1, i + Len(t)) = t

C25_ParagraphsKeptWhole ==
  \A r \in Runs :
    (ChunkerReturned(r) /\ Strategy(r) = "text") =>
      LET paragraphs == splitParagraphs(TextOf(r))
          config == run[r].chunking
          last == LocalsBefore(r, Len(paragraphs) + 1).currentChunk
      IN \A k \in 1..Len(paragraphs) :
           trim(paragraphs[k]) # <<>> =>
             /\ (~(Exceeds(r, k)
                    /\ Len(LocalsBefore(r, k).currentChunk)
                         >= config.minChunkSize)) =>
                  /\ LocalsBefore(r, k + 1).chunks = LocalsBefore(r, k).chunks
                  /\ LocalsBefore(r, k + 1).currentChunk =
                       LocalsBefore(r, k).currentChunk
                         \o (IF LocalsBefore(r, k).currentChunk # <<>>
                             THEN <<"\n", "\n">> ELSE <<>>)
                         \o trim(paragraphs[k])
             /\ \/ \E c \in 1..Len(run[r].chunks) :
                      Holds(run[r].chunks[c].content, trim(paragraphs[k]))
                \/ /\ Len(trim(last)) < config.minChunkSize
                   /\ Holds(last, trim(paragraphs[k]))

\* What holds of the free-text strategy: both statements of C25 whenever
\* chunkOverlap is not below minChunkSize, as in the default config: a
\* running chunk below the floor is then its own overlap.
C25_HoldsWhenOverlapCoversMinChunkSize ==
  \A r \in Runs :
    (/\ ChunkerReturned(r)
     /\ Strategy(r) = "text"
     /\ run[r].chunking.chunkOverlap >= run[r].chunking.minChunkSize) =>
      LET paragraphs == splitParagraphs(TextOf(r))
          config == run[r].chunking
          last == LocalsBefore(r, Len(paragraphs) + 1).currentChunk
      IN \A k \in 1..Len(paragraphs) :
           trim(paragraphs[k]) # <<>> =>
             /\ (~(Exceeds(r, k)
                    /\ Len(LocalsBefore(r, k).currentChunk)
                         >= config.minChunkSize)) =>
                  /\ LocalsBefore(r, k + 1).chunks = LocalsBefore(r, k).chunks
                  /\ LocalsBefore(r, k + 1).currentChunk =
                       LocalsBefore(r, k).currentChunk
                         \o (IF LocalsBefore(r, k).currentChunk # <<>>
                             THEN <<"\n", "\n">> ELSE <<>>)
                         \o trim(paragraphs[k])
             /\ \/ \E c \in 1..Len(run[r].chunks) :
                      Holds(run[r].chunks[c].content, trim(paragraphs[k]))
                \/ /\ Len(trim(last)) < config.minChunkSize
                   /\ Holds(last, trim(paragraphs[k]))

\* The ids of the rows of a table.
IdsOf(rows) == {rows[k].id : k \in 1..Len(rows)}

\* The rows of a table whose id is not in ids, in table order.
Without(rows, ids) ==
  LET Kept(row) == row.id \notin ids IN SelectSeq(rows, Kept)

\* Run r is in an indexDataset or reindexDataset call.
Indexing(r) == run[r].op \in {"indexDataset", "reindexDataset"}

\* C26: two concurrent indexDataset / reindexDataset runs on two different
\* documents do not touch each other's records: at every moment, and so after
\* both have finished, the rows of a run's document are the rows it had when
\* the call was made less those the run's own delete removed, followed by
\* the records the run's own inserts got accepted, in the run's order.
C26_ConcurrentRunsKeepToTheirDocument ==
  \A r \in Runs :
    Indexing(r) =>
      LET rows == RowsOf(store, run[r].datasetId)
          before == Without(RowsOf(run[r].storeAtCall, run[r].datasetId),
                            run[r].deletedIds)
          sent == AcceptedRecords(run[r].embeddingRecords, run[r].inserts, 1)
      IN /\ IdsOf(rows) = IdsOf(before) \cup run[r].insertedIds
         /\ Len(rows) = Len(before) + Len(sent)
         /\ SubSeq(rows, 1, Len(before)) = before
         /\ \A k \in 1..Len(sent) :
               /\ rows[Len(before) + k].content = sent[k].content
               /\ rows[Len(before) + k].metadata = sent[k].metadata
               /\ rows[Len(before) + k].embedding = sent[k].embedding
               /\ rows[Len(before) + k].id \in run[r].insertedIds
         /\ (run[r].op = "reindexDataset" /\ run[r].pc # "delete")
              => before = <<>>

\* Both runs have finished, their inserts interleaved in the table, one of
\* them a reindexing that removed rows of its document.
C26_Witness ==
  /\ \A r \in Runs :
        /\ Indexing(r)
        /\ run[r].pc = "done"
        /\ run[r].result.status = "resolved"
        /\ Len(RowsOf(store, run[r].datasetId)) >= Len(run[r].chunks)
  /\ run[1].datasetId # run[2].datasetId
  /\ \E a \in run[1].insertedIds, b \in run[1].insertedIds :
        \E x \in run[2].insertedIds : a < x /\ x < b
  /\ \E r \in Runs : run[r].deletedIds # {}

\* C27: two concurrent reindexDataset calls for the same document are not
\* kept apart: a delete removes whatever rows of the document the table
\* holds when it runs, those the other run has inserted included and no
\* others, so the document's rows are the rows inserted by either run less
\* the rows deleted by either; when both deletes have run before either
\* run inserted, the document ends with the records of both runs.
C27_RowsOfBothRunsRemain ==
  (/\ \A r \in Runs : run[r].op = "reindexDataset"
   /\ run[1].datasetId = run[2].datasetId) =>
    LET rows == RowsOf(store, run[1].datasetId)
        inserted == run[1].insertedIds \cup run[2].insertedIds
        deleted == run[1].deletedIds \cup run[2].deletedIds
    IN /\ IdsOf(rows) = inserted \ deleted
       /\ Len(rows) = Cardinality(inserted \ deleted)
       /\ (/\ \A r \in Runs : run[r].pc = "done" /\ NoInsertFailure(r)
           /\ \A r \in Runs : run[r].result.status = "resolved"
           /\ deleted = {}) =>
            Len(rows) = Len(run[1].chunks) + Len(run[2].chunks)

\* Both reindexings of the document have returned and its rows are those of
\* both runs, more than either run sent.
C27_Witness ==
  /\ \A r \in Runs :
        /\ run[r].op = "reindexDataset"
        /\ run[r].pc = "done"
        /\ run[r].result.status = "resolved"
        /\ Len(run[r].deletes) = 1
        /\ run[r].deletes[1].ok
        /\ run[r].stats.total_embeddings = Len(run[r].chunks)
        /\ Len(RowsOf(store, run[r].datasetId)) > Len(run[r].chunks)
  /\ run[1].datasetId = run[2].datasetId
  /\ Len(RowsOf(store, run[1].datasetId))
       = Len(run[1].chunks) + Len(run[2].chunks)

\* An indexDataset call of run r is over, some of its embedding requests
\* failed and the store accepted every insert batch it was sent.
IndexedWithFailedRequests(r) ==
  /\ run[r].op = "indexDataset"
  /\ run[r].pc = "done"
  /\ FailedPositions(r) # {}
  /\ NoInsertFailure(r)

\* C29: placeholder vectors are persisted: when some or all embedding
\* requests of an indexDataset run fail and every insert batch succeeds, the
\* call returns, the store has received exactly one record per chunk in
\* chunk order, the records of the failed chunks carrying the zero vector,
\* total_embeddings equals total_chunks and stats.errors is not empty.
C29_PlaceholdersPersisted ==
  \A r \in Runs :
    IndexedWithFailedRequests(r) =>
      /\ run[r].result.status = "resolved"
      /\ Len(RowsSinceCall(r)) = Len(run[r].chunks)
      /\ \A k \in 1..Len(run[r].chunks) :
            /\ RowsSinceCall(r)[k].content = run[r].chunks[k].content
            /\ RowsSinceCall(r)[k].metadata = run[r].chunks[k].metadata
      /\ \A p \in FailedPositions(r) :
            RowsSinceCall(r)[p + 1].embedding = ZeroVector(dimensions)
      /\ run[r].result.value.total_chunks = Len(run[r].chunks)
      /\ run[r].result.value.total_embeddings
           = run[r].result.value.total_chunks
      /\ run[r].result.value.errors # <<>>

\* A run with a failed and an answered request whose records were all
\* accepted.
C29_Witness ==
  /\ IndexedWithFailedRequests(1)
  /\ \E k \in 1..Len(run[1].outcomes) : run[1].outcomes[k].kind = "ok"
  /\ \E k \in 1..Len(store) : store[k].embedding # ZeroVector(dimensions)
  /\ Len(run[1].inserts) >= 2

\* A run all of whose requests failed: every record is a placeholder.
C29_WitnessAllFailed ==
  /\ IndexedWithFailedRequests(1)
  /\ Len(run[1].chunks) >= 2
  /\ \A k \in 1..Len(run[1].outcomes) : run[1].outcomes[k].kind # "ok"
  /\ \A k \in 1..Len(RowsSinceCall(1)) :
        RowsSinceCall(1)[k].embedding = ZeroVector(dimensions)

\* The terminal statuses among those run r has delivered, as the list of
\* their positions.
TerminalAt(r) ==
  LET reported == run[r].progress
  IN {k \in 1..Len(reported) : reported[k] \in {"completed", "error"}}

\* Run r is a DatasetService.indexDataset call whose promise the caller has.
DatasetIndexed(r) ==
  /\ run[r].caller = "background"
  /\ run[r].outer = "indexDataset"
  /\ run[r].pc = "dsdone"

\* The indexDatasetInBackground call of run r has settled.
BackgroundSettled(r) ==
  /\ run[r].caller = "background"
  /\ run[r].pc \in {"bgdone", "dsdone"}

\* What C30 says of run r.
OneTerminalStatus(r) ==
  LET reported == run[r].progress
  IN /\ Cardinality(TerminalAt(r)) <= 1
     /\ TerminalAt(r) \subseteq {Len(reported)}
     /\ (BackgroundSettled(r) /\ Listening(run[r]))
          => TerminalAt(r) = {Len(reported)}
     /\ DatasetIndexed(r) =>
          /\ run[r].promise # Pending
          /\ reported[Len(reported)] = "completed" =>
                /\ run[r].promise.status = "resolved"
                /\ run[r].promise.value = run[r].completedWith
          /\ reported[Len(reported)] = "error" =>
                run[r].promise.status = "rejected"

\* C30: every run of indexDatasetInBackground delivers exactly one terminal
\* status to the progress callback, 'completed' with the stats or 'error',
\* never both and nothing after it, and the promise of
\* DatasetService.indexDataset always settles: resolved with those stats on
\* 'completed', rejected on 'error'.
C30_ExactlyOneTerminalStatus ==
  \A r \in Runs : run[r].caller = "background" => OneTerminalStatus(r)

\* The same holds of the runs whose progress callback returns from the call
\* with 'completed'.
C30_HoldsWhenCompletedIsTaken ==
  \A r \in Runs :
    (run[r].caller = "background"
       /\ "completed" \notin run[r].callback.throwsOn)
      => OneTerminalStatus(r)

\* The promise of DatasetService.indexDataset is settled whenever the caller
\* has it, whatever the callback does.
C30_PromiseSettles ==
  \A r \in Runs : DatasetIndexed(r) => run[r].promise # Pending

\* A dataset was indexed in full, 'completed' and then 'error' were
\* delivered and the promise of DatasetService.indexDataset is rejected.
C30_WitnessBothDelivered ==
  /\ DatasetIndexed(1)
  /\ Len(run[1].chunks) >= 1
  /\ Len(RowsSinceCall(1)) = Len(run[1].chunks)
  /\ Cardinality(TerminalAt(1)) = 2
  /\ run[1].promise.status = "rejected"

\* Run r is a background indexing an upload started.
StartedByUpload(r) ==
  /\ run[r].caller = "background"
  /\ run[r].outer = "none"

\* Run r is an uploadFile call that has started the background indexing.
UploadStarted(r) ==
  /\ run[r].op = "uploadFile"
  /\ run[r].upload.started # 0

\* The background indexing of run r has failed: it ended in the catch block.
BackgroundFailed(r) ==
  /\ StartedByUpload(r)
  /\ run[r].pc = "bgdone"
  /\ \/ run[r].result.status = "rejected"
     \/ /\ run[r].progress # <<>>
        /\ run[r].progress[Len(run[r].progress)] = "error"

\* C28: uploadFile with autoIndex starts the indexing only once the dataset
\* row is in the table and has by then resolved with the dataset, not
\* waiting for the indexing; whatever the background indexing does (no key,
\* no chunks, failed requests, refused inserts, a throwing callback), the
\* upload stays resolved and the row stays in the table.
C28_UploadNotBoundToIndexing ==
  /\ \A s \in Runs :
       StartedByUpload(s) =>
         /\ Len(DatasetRows(run[s].datasetId)) = 1
         /\ DatasetRows(run[s].datasetId)[1].gem_id = run[s].gemId
  /\ \A r \in Runs :
       run[r].op = "uploadFile" =>
         /\ run[r].upload.started # 0 =>
              /\ run[r].upload.autoIndex
              /\ run[r].pc = "updone"
         /\ (run[r].pc = "updone" /\ run[r].upload.reported[
                Len(run[r].upload.reported)] = 100) =>
              /\ run[r].result = Resolved(run[r].datasetId)
              /\ Len(DatasetRows(run[r].datasetId)) = 1
              /\ run[r].upload.autoIndex <=> run[r].upload.started # 0

\* An upload has returned its dataset while the indexing it started still
\* waits for the provider.
C28_WitnessInFlight ==
  /\ UploadStarted(1)
  /\ run[1].result = Resolved(run[1].datasetId)
  /\ StartedByUpload(2)
  /\ run[2].datasetId = run[1].datasetId
  /\ run[2].pc = "fetch"

\* The indexing an upload started has failed on a refused insert; the
\* upload is resolved with the dataset, whose row is in the table.
C28_Witness ==
  /\ UploadStarted(1)
  /\ run[1].result = Resolved(run[1].datasetId)
  /\ BackgroundFailed(2)
  /\ run[2].datasetId = run[1].datasetId
  /\ run[2].insertCalls >= 1
  /\ Len(DatasetRows(run[1].datasetId)) = 1

\* The indexing an upload started has failed for want of an API key.
C28_WitnessNoKey ==
  /\ UploadStarted(1)
  /\ run[1].result = Resolved(run[1].datasetId)
  /\ BackgroundFailed(2)
  /\ run[2].progress = <<"starting", "error">>

\* The indexing an upload started has failed on a document without chunks.
C28_WitnessNoChunks ==
  /\ UploadStarted(1)
  /\ BackgroundFailed(2)
  /\ run[2].content = 0
  /\ run[2].progress = <<"starting", "chunking", "embedding", "error">>

\* The progress callback threw on 'completed' and on 'error': the promise
\* of the background indexing is rejected and nobody handles it.
C28_WitnessCallbackThrew ==
  /\ UploadStarted(1)
  /\ run[1].result = Resolved(run[1].datasetId)
  /\ BackgroundFailed(2)
  /\ run[2].result.status = "rejected"

====
